---- MODULE Spec2Model ----
(***************************************************************************)
(* Model of the Optolink VS2 / 300 protocol handler                        *)
(* (src/src/optolink2mqtt/optolinkvs2.py).                                 *)
(*                                                                         *)
(* One behaviour is one call on a session by its single owner.             *)
(* Spec: a call of receive_telegr. Call enters the function, every Poll*   *)
(* action is one iteration of its "for _ in range(600)" loop (sleep,       *)
(* read_all, the three state blocks), LoopExit is the fall-through to the  *)
(* timeout return.                                                         *)
(* Vs2Spec: a call of init_vs2. RequestSpec: a call of read_datapoint_ext, *)
(* write_datapoint_ext or do_request, which ends in receive_telegr.        *)
(* RawSpec: a call of receive_fullraw.                                     *)
(* RegisterSpec: an OptolinkVS2Register                                    *)
(* (src/src/optolink2mqtt/optolinkvs2_register.py) is constructed and its  *)
(* methods are called in any order. Strings are sequences of one-character *)
(* strings; integers of any size are a sign and base-256 digits.           *)
(* Sequences are 1-based here and 0-based in the source: inbuff[k] in the  *)
(* source is inbuff[k+1] in this module.                                   *)
(***************************************************************************)
EXTENDS Integers, Sequences, FiniteSets, TLC

VARIABLES
    pc,                 \* "idle": no call in progress, "done": returned, "raised": ended by an
                        \* exception before its first statement on the transport, else the loop the call is in:
                        \* "rx" (receive_telegr), "enq" and "ack" (init_vs2), "raw" (receive_fullraw)
    mqtt_publ_callback, \* self.mqtt_publ_callback is set (a hook is configured)
    ser2,               \* self.ser2 is set (a secondary transport is configured)
    resptelegr,         \* parameter of receive_telegr
    polls,              \* iterations started so far of the receive loop, or of the first loop of init_vs2
    state,              \* local of receive_telegr
    inbuff,             \* local of receive_telegr
    alldata,            \* local of receive_telegr
    retdata,            \* local of receive_telegr
    addr,               \* local of receive_telegr
    msgid,              \* local of receive_telegr
    msqn,               \* local of receive_telegr
    fctcd,              \* local of receive_telegr
    dlen,               \* local of receive_telegr
    result,             \* the tuple receive_telegr returned: <<code, addr, data>>, <<>> before the return
    published,          \* the calls made to the publish hook, in order
    ser2_written,       \* the bytes written to the secondary transport, in order
    ser_log,            \* what was done to the primary transport, in order: <<"reset">>,
                        \* <<"write", bytes>>, <<"read", bytes>> (reads that follow each other
                        \* are one entry, a read that returned nothing leaves no entry)
    ack_polls,          \* init_vs2: iterations of the second loop started so far
    eot_time,           \* receive_fullraw: parameter, in clock ticks
    timeout,            \* receive_fullraw: parameter, in clock ticks
    now,                \* receive_fullraw: time.time(), in clock ticks
    start,              \* receive_fullraw: local
    last_rx,            \* receive_fullraw: local
    call,               \* the request in progress: <<function name, arguments...>>, <<>> if none
    reg,                \* the OptolinkVS2Register object: its attributes, <<>> before construction
    ext,                \* what the register definition of the specification holds beyond the
                        \* attributes of the class: writable, byte_filter, enum
    out,                \* the last call on the register: <<method name, arguments..., result>>
    ser_in,             \* the input buffer of the primary transport: the bytes that have arrived
                        \* and wait for read_all, in a session of several calls
    owed,               \* the answers of the device to the request frames written, in order,
                        \* that have not arrived yet
    handshake           \* how the most recent init_vs2 of the session ended: "ok" (True),
                        \* "failed" (False), "none" before the first

vars == <<pc, mqtt_publ_callback, ser2, resptelegr, polls, state,
          inbuff, alldata, retdata, addr, msgid, msqn, fctcd, dlen, result,
          published, ser2_written, ser_log, ack_polls, eot_time, timeout, now, start, last_rx,
          call, reg, ext, out, ser_in, owed, handshake>>

\* the variables only init_vs2, receive_fullraw and the request functions use
vs2vars == <<ack_polls>>
rawvars == <<eot_time, timeout, now, start, last_rx>>
reqvars == <<call>>
regvars == <<reg, ext, out>>
\* the line of a session of several calls
linevars == <<ser_in, owed, handshake>>

locals == <<state, inbuff, alldata, retdata, addr, msgid, msqn, fctcd, dlen>>

\* ------------------------------------------------------------------
\* Protocol constants
\* ------------------------------------------------------------------
ACK == 6                \* 0x06
NACK == 21              \* 0x15
STX == 65               \* 0x41
MinPayloadLen == 5      \* protocol_Id + MsgId|FnctCode + AddrHi + AddrLo + BlkLen
ErrorMsgId == 3         \* low nibble of byte 2 of an error message
PollBudget == 600       \* range(600)
Unset == 256            \* 0x100, initial msgid / msqn / fctcd

RC_Success == 1         \* 0x01
RC_ErrorMessage == 3    \* 0x03
RC_Nack == 21           \* 0x15
RC_Byte0Unknown == 32   \* 0x20
RC_StxError == 65       \* 0x41
RC_HandleLost == 170    \* 0xAA
RC_LengthError == 253   \* 0xFD
RC_CrcError == 254      \* 0xFE
RC_Timeout == 255       \* 0xFF

\* ------------------------------------------------------------------
\* Python sequence helpers
\* ------------------------------------------------------------------
Min(a, b) == IF a < b THEN a ELSE b

\* s[i:j] of Python for 0 <= i, 0 <= j (0-based, j exclusive, clipped to len(s))
Slice(s, i, j) == SubSeq(s, i + 1, Min(j, Len(s)))

RECURSIVE SumSeq(_)
SumSeq(s) ==
    IF s = <<>> THEN 0
    ELSE IF Len(s) = 1 THEN s[1]
    ELSE SumSeq(SubSeq(s, 1, Len(s) \div 2)) + SumSeq(SubSeq(s, Len(s) \div 2 + 1, Len(s)))

\* calc_crc with lastbyte = telegram[1] + 2, which takes in the checksum byte
calc_crc_ThroughEnd(telegram) == SumSeq(Slice(telegram, 1, telegram[2] + 3)) % 256

\* calc_crc: sum(telegram[1 : telegram[1] + 2]) % 0x100
calc_crc(telegram) == SumSeq(Slice(telegram, 1, telegram[2] + 2)) % 256

\* ------------------------------------------------------------------
\* What the device sends during one call
\* ------------------------------------------------------------------
MaxData == 1            \* longest data block of a frame the device sends
MaxTrail == 1           \* most bytes the device sends after a frame

ProtIds == {1, 3, 19}   \* byte 2: response, error message, error nibble under a high nibble
FctBytes == {97}        \* byte 3: sequence number 3, function code 1 (Virtual_READ)
Addresses == {248}      \* 0x00F8
DataBytes == {42}       \* bytes of a data block
Noise == {0}            \* bytes that are neither ACK, NACK nor STX

RECURSIVE DataBlocks(_)
DataBlocks(len) ==
    IF len = 0 THEN {<<>>}
    ELSE DataBlocks(len - 1) \cup { s \o <<b>> : s \in { t \in DataBlocks(len - 1) : Len(t) = len - 1 }, b \in DataBytes }

\* STX, Len, then Len bytes (protid, fct, addr hi, addr lo, blklen, data), no checksum yet
FrameHead(pllen, protid, fct, address, data) ==
    <<STX, pllen, protid, fct, (address \div 256) % 256, address % 256, Len(data)>> \o data

\* frames with the length byte the layout asks for, checksum right or off by one
Frames ==
    { FrameHead(MinPayloadLen + Len(d), p, f, a, d) \o <<(calc_crc(FrameHead(MinPayloadLen + Len(d), p, f, a, d)) + e) % 256>> :
        p \in ProtIds, f \in FctBytes, a \in Addresses, d \in DataBlocks(MaxData), e \in {0, 1} }

\* what may follow a frame on the line: nothing, or bytes that are zero or repeat the frame's checksum
RECURSIVE Trails(_, _)
Trails(f, len) ==
    IF len = 0 THEN {<<>>}
    ELSE Trails(f, len - 1) \cup
         { t \o <<b>> : t \in { u \in Trails(f, len - 1) : Len(u) = len - 1 }, b \in Noise \cup {calc_crc(f)} }

Telegrams == UNION { { f \o t : t \in Trails(f, MaxTrail) } : f \in Frames }

\* frames cut short by a wrong start byte or a length byte below the minimum
Malformed ==
    UNION { { <<b>>, <<b, STX>>, <<STX, MinPayloadLen - 1>>, <<STX, MinPayloadLen - 1, b>> } : b \in Noise }

\* everything the device may send during one call
DeviceStreams ==
    Telegrams \cup Malformed
      \cup { <<ACK>> \o s : s \in Telegrams \cup Malformed }
      \cup { <<NACK>>, <<NACK, STX>>, <<ACK>> }

IsPrefix(s, t) == Len(s) <= Len(t) /\ SubSeq(t, 1, Len(s)) = s

\* every prefix of a stream: what may have been read so far in a call
Prefixes == UNION { { SubSeq(t, 1, j) : j \in 0 .. Len(t) } : t \in DeviceStreams }

\* for every prefix, the chunks that continue it within a stream (the empty chunk included)
ChunkTable ==
    [ read \in Prefixes |->
        UNION { { SubSeq(t, Len(read) + 1, j) : j \in Len(read) .. Len(t) } :
                t \in { u \in DeviceStreams : IsPrefix(read, u) } } ]

\* what one read_all() may return when the bytes in read have been read so far in the call:
\* nothing, or the next bytes of a stream the device may be sending
NextChunks(read) == ChunkTable[read]

\* ------------------------------------------------------------------
\* The primary transport
\* ------------------------------------------------------------------
\* self.ser.reset_input_buffer()
LogReset(log) == Append(log, <<"reset">>)

\* self.ser.write(bytes)
LogWrite(log, bytes) == Append(log, <<"write", bytes>>)

\* self.ser.read(1) / self.ser.read_all() returning bytes
LogRead(log, bytes) ==
    IF bytes = <<>> THEN log
    ELSE IF log # <<>> /\ log[Len(log)][1] = "read"
         THEN [log EXCEPT ![Len(log)] = <<"read", log[Len(log)][2] \o bytes>>]
         ELSE Append(log, <<"read", bytes>>)

\* ------------------------------------------------------------------
\* receive_telegr: one loop iteration after the read
\* ------------------------------------------------------------------
NoReturn == <<>>

\* the locals of receive_telegr plus the pending "return self._return(...)" of this iteration
Locals(st, ib, all, rd, ad, mi, ms, fc, dl, ret) ==
    [state |-> st, inbuff |-> ib, alldata |-> all, retdata |-> rd, addr |-> ad,
     msgid |-> mi, msqn |-> ms, fctcd |-> fc, dlen |-> dl, ret |-> ret]

\* arguments of self._return(code, addr, data, msgid, msqn, fctcd, dlen, raw)
ReturnArgs(code, l, data) == <<code, l.addr, data, l.msgid, l.msqn, l.fctcd, l.dlen>>

\* AckGate that takes the ACK out of alldata as well as out of inbuff
AckGate_ForgetsAck(resp, l) ==
    IF l.state # 0 THEN l
    ELSE IF resp /\ l.inbuff # <<>> THEN
        IF l.inbuff[1] = ACK
        THEN [l EXCEPT !.state = 1, !.inbuff = Tail(l.inbuff), !.alldata = Tail(l.alldata)]
        ELSE IF l.inbuff[1] = NACK THEN [l EXCEPT !.ret = ReturnArgs(RC_Nack, l, l.alldata)]
        ELSE [l EXCEPT !.ret = ReturnArgs(RC_Byte0Unknown, l, l.alldata)]
    ELSE [l EXCEPT !.state = 1]

\* "if state == 0:" block
AckGate(resp, l) ==
    IF l.state # 0 THEN l
    ELSE IF resp /\ l.inbuff # <<>> THEN
        IF l.inbuff[1] = ACK THEN [l EXCEPT !.state = 1, !.inbuff = Tail(l.inbuff)]
        ELSE IF l.inbuff[1] = NACK THEN [l EXCEPT !.ret = ReturnArgs(RC_Nack, l, l.alldata)]
        ELSE [l EXCEPT !.ret = ReturnArgs(RC_Byte0Unknown, l, l.alldata)]
    ELSE [l EXCEPT !.state = 1]

\* StartOfFrame with a wrong start byte dropped and the scan for STX continued
StartOfFrame_Scans(l) ==
    IF l.ret = NoReturn /\ l.state = 1 /\ l.inbuff # <<>> THEN
        IF l.inbuff[1] # STX THEN [l EXCEPT !.inbuff = Tail(l.inbuff)]
        ELSE [l EXCEPT !.state = 2]
    ELSE l

\* "if state == 1 and inbuff:" block
StartOfFrame(l) ==
    IF l.ret = NoReturn /\ l.state = 1 /\ l.inbuff # <<>> THEN
        IF l.inbuff[1] # STX THEN [l EXCEPT !.ret = ReturnArgs(RC_StxError, l, l.alldata)]
        ELSE [l EXCEPT !.state = 2]
    ELSE l

\* LengthTooShort with the limit one too low
LengthTooShort_Below4(pllen) == pllen < MinPayloadLen - 1

\* "pllen < 5"
LengthTooShort(pllen) == pllen < MinPayloadLen

\* "inbuff = inbuff[: pllen + 4]"
Truncate(ib, pllen) == Slice(ib, 0, pllen + 4)

\* "inbuff[-1] != self.calc_crc(inbuff)"
CrcMismatch(ib) == ib[Len(ib)] # calc_crc(ib)

\* "inbuff[2] & 0x0F == 0x03"
IsErrorMessage(ib) == ib[3] % 16 = ErrorMsgId

\* Decode with the two parts of byte 3 taken the other way round
Decode_LowBitsAreSequence(l, pllen) ==
    LET ib == Truncate(l.inbuff, pllen)
        d  == [l EXCEPT !.inbuff = ib,
                        !.msgid = ib[3],
                        !.msqn = ib[4] % 32,
                        !.fctcd = (ib[4] \div 32) % 8,
                        !.addr = ib[5] * 256 + ib[6],
                        !.dlen = ib[7],
                        !.retdata = Slice(ib, 7, pllen + 2)]
    IN  IF CrcMismatch(ib) THEN [d EXCEPT !.ret = ReturnArgs(RC_CrcError, d, d.retdata)]
        ELSE IF IsErrorMessage(ib) THEN [d EXCEPT !.ret = ReturnArgs(RC_ErrorMessage, d, d.retdata)]
        ELSE [d EXCEPT !.ret = ReturnArgs(RC_Success, d, d.retdata)]

\* "receive complete" branch
Decode(l, pllen) ==
    LET ib == Truncate(l.inbuff, pllen)
        d  == [l EXCEPT !.inbuff = ib,
                        !.msgid = ib[3],
                        !.msqn = (ib[4] \div 32) % 8,
                        !.fctcd = ib[4] % 32,
                        !.addr = ib[5] * 256 + ib[6],
                        !.dlen = ib[7],
                        !.retdata = Slice(ib, 7, pllen + 2)]
    IN  IF CrcMismatch(ib) THEN [d EXCEPT !.ret = ReturnArgs(RC_CrcError, d, d.retdata)]
        ELSE IF IsErrorMessage(ib) THEN [d EXCEPT !.ret = ReturnArgs(RC_ErrorMessage, d, d.retdata)]
        ELSE [d EXCEPT !.ret = ReturnArgs(RC_Success, d, d.retdata)]

\* FrameBody that takes the frame for complete one byte early
FrameBody_OneByteEarly(l) ==
    IF l.ret = NoReturn /\ l.state = 2 /\ Len(l.inbuff) > 1 THEN
        LET pllen == l.inbuff[2]
        IN  IF LengthTooShort(pllen) THEN [l EXCEPT !.ret = ReturnArgs(RC_LengthError, l, l.alldata)]
            ELSE IF Len(l.inbuff) >= pllen + 2 THEN Decode(l, pllen)
            ELSE l
    ELSE l

\* "if state == 2 and len(inbuff) > 1:" block
FrameBody(l) ==
    IF l.ret = NoReturn /\ l.state = 2 /\ Len(l.inbuff) > 1 THEN
        LET pllen == l.inbuff[2]
        IN  IF LengthTooShort(pllen) THEN [l EXCEPT !.ret = ReturnArgs(RC_LengthError, l, l.alldata)]
            ELSE IF Len(l.inbuff) >= pllen + 3 THEN Decode(l, pllen)
            ELSE l
    ELSE l

\* the three state blocks of one iteration, in source order
Iteration(resp, l) == FrameBody(StartOfFrame(AckGate(resp, l)))

\* ------------------------------------------------------------------
\* Actions
\* ------------------------------------------------------------------
Init ==
    /\ pc = "idle"
    /\ mqtt_publ_callback \in BOOLEAN
    /\ ser2 \in BOOLEAN
    /\ resptelegr = FALSE
    /\ polls = 0
    /\ state = 0
    /\ inbuff = <<>>
    /\ alldata = <<>>
    /\ retdata = <<>>
    /\ addr = 0
    /\ msgid = Unset
    /\ msqn = Unset
    /\ fctcd = Unset
    /\ dlen = -1
    /\ result = <<>>
    /\ published = <<>>
    /\ ser2_written = <<>>
    /\ ser_log = <<>>
    /\ ack_polls = 0
    /\ eot_time = 0
    /\ timeout = 0
    /\ now = 0
    /\ start = 0
    /\ last_rx = 0
    /\ call = <<>>
    /\ reg = <<>>
    /\ ext = <<>>
    /\ out = <<>>
    /\ ser_in = <<>>
    /\ owed = <<>>
    /\ handshake = "none"

\* entry of receive_telegr(resptelegr, raw): the locals are initialised.
\* raw only selects whether the data is returned as a bytearray copy (see Return),
\* which has the same bytes; it is drawn where it is used and not kept in the state.
Call ==
    /\ pc = "idle"
    /\ pc' = "rx"
    /\ resptelegr' \in BOOLEAN
    /\ polls' = 0
    /\ state' = 0
    /\ inbuff' = <<>>
    /\ alldata' = <<>>
    /\ retdata' = <<>>
    /\ addr' = 0
    /\ msgid' = Unset
    /\ msqn' = Unset
    /\ fctcd' = Unset
    /\ dlen' = -1
    /\ UNCHANGED <<mqtt_publ_callback, ser2, result, published, ser2_written, ser_log,
                   vs2vars, rawvars, reqvars, regvars, linevars>>

SetLocals(l) ==
    /\ state' = l.state
    /\ inbuff' = l.inbuff
    /\ alldata' = l.alldata
    /\ retdata' = l.retdata
    /\ addr' = l.addr
    /\ msgid' = l.msgid
    /\ msqn' = l.msqn
    /\ fctcd' = l.fctcd
    /\ dlen' = l.dlen

\* bytearray(data): a new array holding the same bytes
bytearray(data) == [i \in 1 .. Len(data) |-> data[i]]

\* self._return(code, addr, data, msgid, msqn, fctcd, dlen, raw); args is the first seven arguments
Return(args, raw) ==
    /\ published' = IF mqtt_publ_callback THEN Append(published, args) ELSE published
    /\ result' = <<args[1], args[2], IF ~raw THEN args[3] ELSE bytearray(args[3])>>
    /\ pc' = "done"

\* Poll in a loop without the bound of range(600)
Poll_Unbounded ==
    /\ pc = "rx"
    /\ \E inbytes \in NextChunks(alldata) :
         LET l == Iteration(resptelegr,
                            Locals(state, inbuff \o inbytes, alldata \o inbytes, retdata,
                                   addr, msgid, msqn, fctcd, dlen, NoReturn))
         IN  /\ ser_log' = LogRead(ser_log, inbytes)
             /\ ser2_written' = IF ser2 THEN ser2_written \o inbytes ELSE ser2_written
             /\ SetLocals(l)
             /\ IF l.ret # NoReturn THEN \E raw \in BOOLEAN : Return(l.ret, raw)
                ELSE UNCHANGED <<pc, result, published>>
    /\ polls' = polls + 1
    /\ UNCHANGED <<mqtt_publ_callback, ser2, resptelegr, vs2vars, rawvars, reqvars, regvars, linevars>>

\* one loop iteration: read_all returns inbytes (<<>>: nothing available), which is
\* appended and mirrored, then the state blocks run
Poll ==
    /\ pc = "rx"
    /\ polls < PollBudget
    /\ \E inbytes \in NextChunks(alldata) :
         LET l == Iteration(resptelegr,
                            Locals(state, inbuff \o inbytes, alldata \o inbytes, retdata,
                                   addr, msgid, msqn, fctcd, dlen, NoReturn))
         IN  /\ ser_log' = LogRead(ser_log, inbytes)
             /\ ser2_written' = IF ser2 THEN ser2_written \o inbytes ELSE ser2_written
             /\ SetLocals(l)
             /\ IF l.ret # NoReturn THEN \E raw \in BOOLEAN : Return(l.ret, raw)
                ELSE UNCHANGED <<pc, result, published>>
    /\ polls' = polls + 1
    /\ UNCHANGED <<mqtt_publ_callback, ser2, resptelegr, vs2vars, rawvars, reqvars, regvars, linevars>>

\* PollReadFails that swallows the exception and goes on to the next iteration
PollReadFails_Retries ==
    /\ pc = "rx"
    /\ polls < PollBudget
    /\ polls' = polls + 1
    /\ UNCHANGED <<pc, result, mqtt_publ_callback, ser2, resptelegr, locals, published,
                   ser2_written, ser_log, vs2vars, rawvars, reqvars, regvars, linevars>>

\* one loop iteration in which self.ser.read_all() raises: "return 0xAA, 0, retdata"
PollReadFails ==
    /\ pc = "rx"
    /\ polls < PollBudget
    /\ polls' = polls + 1
    /\ result' = <<RC_HandleLost, 0, retdata>>
    /\ pc' = "done"
    /\ UNCHANGED <<mqtt_publ_callback, ser2, resptelegr, locals, published, ser2_written,
                   ser_log, vs2vars, rawvars, reqvars, regvars, linevars>>

\* one loop iteration in which read_all returns bytes, they are appended to inbuff and
\* alldata, and self.ser2.write(inbytes) raises: "return 0xAA, 0, retdata"
PollMirrorFails ==
    /\ pc = "rx"
    /\ polls < PollBudget
    /\ ser2
    /\ \E inbytes \in NextChunks(alldata) \ {<<>>} :
         /\ ser_log' = LogRead(ser_log, inbytes)
         /\ inbuff' = inbuff \o inbytes
         /\ alldata' = alldata \o inbytes
    /\ polls' = polls + 1
    /\ result' = <<RC_HandleLost, 0, retdata>>
    /\ pc' = "done"
    /\ UNCHANGED <<mqtt_publ_callback, ser2, resptelegr, state, retdata, addr, msgid,
                   msqn, fctcd, dlen, published, ser2_written, vs2vars, rawvars, reqvars, regvars, linevars>>

\* LoopExit returning alldata, as the returns ahead of a complete frame do
LoopExit_ReturnsAlldata ==
    /\ pc = "rx"
    /\ polls = PollBudget
    /\ \E raw \in BOOLEAN : Return(<<RC_Timeout, addr, alldata, msgid, msqn, fctcd, dlen>>, raw)
    /\ UNCHANGED <<mqtt_publ_callback, ser2, resptelegr, polls, locals, ser2_written,
                   ser_log, vs2vars, rawvars, reqvars, regvars, linevars>>

\* the loop ran all its iterations: "return self._return(0xFF, addr, retdata, ...)"
LoopExit ==
    /\ pc = "rx"
    /\ polls = PollBudget
    /\ \E raw \in BOOLEAN : Return(<<RC_Timeout, addr, retdata, msgid, msqn, fctcd, dlen>>, raw)
    /\ UNCHANGED <<mqtt_publ_callback, ser2, resptelegr, polls, locals, ser2_written,
                   ser_log, vs2vars, rawvars, reqvars, regvars, linevars>>

Next == Call \/ Poll \/ PollReadFails \/ PollMirrorFails \/ LoopExit

Spec == Init /\ [][Next]_vars

\* ------------------------------------------------------------------
\* init_vs2
\* ------------------------------------------------------------------
EOT == 4                \* 0x04
ENQ == 5                \* 0x05
START_VS2 == <<22, 0, 0>>   \* 0x16, 0x00, 0x00
EnqPolls == 30          \* first "for _ in range(30)"
AckPolls == 30          \* second "for _ in range(30)"

MaxVs2Bytes == 3        \* most bytes the device sends during one handshake

\* all bytes read from the primary so far, in order
RECURSIVE ReadBytes(_)
ReadBytes(log) ==
    IF log = <<>> THEN <<>>
    ELSE (IF Head(log)[1] = "read" THEN Head(log)[2] ELSE <<>>) \o ReadBytes(Tail(log))

\* the bytes written to the primary, one element per write
RECURSIVE Writes(_)
Writes(log) ==
    IF log = <<>> THEN <<>>
    ELSE (IF Head(log)[1] = "write" THEN <<Head(log)[2]>> ELSE <<>>) \o Writes(Tail(log))

\* what self.ser.read(1) may return: nothing, or one byte the device sent
Read1(log) ==
    {<<>>} \cup (IF Len(ReadBytes(log)) < MaxVs2Bytes
                 THEN { <<b>> : b \in {ENQ, ACK} \cup Noise } ELSE {})

\* entry of init_vs2 up to the first loop: reset_input_buffer, write EOT
InitVs2 ==
    /\ pc = "idle"
    /\ ser_log' = LogWrite(LogReset(ser_log), <<EOT>>)
    /\ polls' = 0
    /\ pc' = "enq"
    /\ UNCHANGED <<mqtt_publ_callback, ser2, resptelegr, locals, result, published,
                   ser2_written, vs2vars, rawvars, reqvars, regvars, linevars>>

\* EnqPoll that leaves the first loop on any byte read
EnqPoll_AnyByte ==
    /\ pc = "enq"
    /\ polls < EnqPolls
    /\ polls' = polls + 1
    /\ \E buff \in Read1(ser_log) :
         IF buff # <<>>
         THEN /\ ser_log' = LogWrite(LogReset(LogRead(ser_log, buff)), START_VS2)
              /\ ack_polls' = 0
              /\ pc' = "ack"
         ELSE /\ ser_log' = LogRead(ser_log, buff)
              /\ UNCHANGED <<pc, ack_polls>>
    /\ UNCHANGED <<mqtt_publ_callback, ser2, resptelegr, locals, result, published,
                   ser2_written, rawvars, reqvars, regvars, linevars>>

\* EnqPoll that writes START without discarding the input first
EnqPoll_NoReset ==
    /\ pc = "enq"
    /\ polls < EnqPolls
    /\ polls' = polls + 1
    /\ \E buff \in Read1(ser_log) :
         IF buff # <<>> /\ buff[1] = ENQ
         THEN /\ ser_log' = LogWrite(LogRead(ser_log, buff), START_VS2)
              /\ ack_polls' = 0
              /\ pc' = "ack"
         ELSE /\ ser_log' = LogRead(ser_log, buff)
              /\ UNCHANGED <<pc, ack_polls>>
    /\ UNCHANGED <<mqtt_publ_callback, ser2, resptelegr, locals, result, published,
                   ser2_written, rawvars, reqvars, regvars, linevars>>

\* one iteration of the first loop: sleep, read(1); on ENQ break, reset_input_buffer,
\* write START_VS2 and enter the second loop
EnqPoll ==
    /\ pc = "enq"
    /\ polls < EnqPolls
    /\ polls' = polls + 1
    /\ \E buff \in Read1(ser_log) :
         IF buff # <<>> /\ buff[1] = ENQ
         THEN /\ ser_log' = LogWrite(LogReset(LogRead(ser_log, buff)), START_VS2)
              /\ ack_polls' = 0
              /\ pc' = "ack"
         ELSE /\ ser_log' = LogRead(ser_log, buff)
              /\ UNCHANGED <<pc, ack_polls>>
    /\ UNCHANGED <<mqtt_publ_callback, ser2, resptelegr, locals, result, published,
                   ser2_written, rawvars, reqvars, regvars, linevars>>

\* the else of the first loop: "return False"
EnqExhausted ==
    /\ pc = "enq"
    /\ polls = EnqPolls
    /\ result' = FALSE
    /\ pc' = "done"
    /\ UNCHANGED <<mqtt_publ_callback, ser2, resptelegr, polls, locals, published,
                   ser2_written, ser_log, vs2vars, rawvars, reqvars, regvars, linevars>>

\* one iteration of the second loop: sleep, read(1); on ACK "return True"
AckPoll ==
    /\ pc = "ack"
    /\ ack_polls < AckPolls
    /\ ack_polls' = ack_polls + 1
    /\ \E buff \in Read1(ser_log) :
         /\ ser_log' = LogRead(ser_log, buff)
         /\ IF buff # <<>> /\ buff[1] = ACK
            THEN result' = TRUE /\ pc' = "done"
            ELSE UNCHANGED <<pc, result>>
    /\ UNCHANGED <<mqtt_publ_callback, ser2, resptelegr, polls, locals, published,
                   ser2_written, rawvars, reqvars, regvars, linevars>>

\* the second loop ran all its iterations: "return False"
AckExhausted ==
    /\ pc = "ack"
    /\ ack_polls = AckPolls
    /\ result' = FALSE
    /\ pc' = "done"
    /\ UNCHANGED <<mqtt_publ_callback, ser2, resptelegr, polls, locals, published,
                   ser2_written, ser_log, vs2vars, rawvars, reqvars, regvars, linevars>>

Vs2Next == InitVs2 \/ EnqPoll \/ EnqExhausted \/ AckPoll \/ AckExhausted

Vs2Spec == Init /\ [][Vs2Next]_vars

\* ------------------------------------------------------------------
\* read_datapoint_ext, write_datapoint_ext, do_request
\* ------------------------------------------------------------------
\* arguments the requests are called with
ReqAddrs == {248, 65535}                    \* addr: 0x00F8, 0xFFFF
ReqLens == {1, 255}                         \* rdlen
ReqData == {<<>>, <<200, 100>>}             \* data of a write
ReqCodes == {<<7, 0>>, <<263, 32>>}         \* fctcode and protid of do_request: 0x07, 0x107

\* bytearray(n): n zero bytes
zeros(n) == [i \in 1 .. n |-> 0]

BadLens == {-1, 256}                        \* rdlen / rlen that no byte holds
LongData == zeros(251)                      \* data one byte too long for the length byte

\* outbuff[i : i + len(data)] = data
SetSlice(buf, i, data) ==
    [k \in 1 .. Len(buf) |-> IF k > i /\ k <= i + Len(data) THEN data[k - i] ELSE buf[k]]

\* ReadOutbuff with the two address bytes in the other order
ReadOutbuff_LowHigh(a, rdlen) ==
    LET outbuff == [zeros(8) EXCEPT ![1] = STX, ![2] = 5, ![3] = 0, ![4] = 1,
                                    ![5] = a % 256, ![6] = (a \div 256) % 256,
                                    ![7] = rdlen]
    IN  [outbuff EXCEPT ![8] = calc_crc(outbuff)]

\* outbuff of read_datapoint_ext(addr, rdlen)
ReadOutbuff(a, rdlen) ==
    LET outbuff == [zeros(8) EXCEPT ![1] = STX, ![2] = 5, ![3] = 0, ![4] = 1,
                                    ![5] = (a \div 256) % 256, ![6] = a % 256,
                                    ![7] = rdlen]
    IN  [outbuff EXCEPT ![8] = calc_crc(outbuff)]

\* WriteOutbuff that leaves the data out of the length byte
WriteOutbuff_FixedLen(a, data) ==
    LET wrlen == Len(data)
        outbuff == SetSlice([zeros(wrlen + 8) EXCEPT ![1] = STX, ![2] = 5, ![3] = 0,
                                                     ![4] = 2,
                                                     ![5] = (a \div 256) % 256,
                                                     ![6] = a % 256, ![7] = wrlen],
                            7, data)
    IN  [outbuff EXCEPT ![8 + wrlen] = calc_crc(outbuff)]

\* outbuff of write_datapoint_ext(addr, data)
WriteOutbuff(a, data) ==
    LET wrlen == Len(data)
        outbuff == SetSlice([zeros(wrlen + 8) EXCEPT ![1] = STX, ![2] = 5 + wrlen, ![3] = 0,
                                                     ![4] = 2,
                                                     ![5] = (a \div 256) % 256,
                                                     ![6] = a % 256, ![7] = wrlen],
                            7, data)
    IN  [outbuff EXCEPT ![8 + wrlen] = calc_crc(outbuff)]

\* outbuff of do_request(fctcode, addr, rlen, data, protid)
RequestOutbuff(fctcode, a, rlen, data, protid) ==
    LET pldlen == 5 + Len(data)
        outbuff == SetSlice([zeros(pldlen + 3) EXCEPT ![1] = STX, ![2] = pldlen,
                                                      ![3] = protid, ![4] = fctcode % 256,
                                                      ![5] = (a \div 256) % 256,
                                                      ![6] = a % 256, ![7] = rlen],
                            7, data)
    IN  [outbuff EXCEPT ![Len(outbuff)] = calc_crc(outbuff)]

\* the frame of the request in progress
LastWrite(log) ==
    LET w == { i \in 1 .. Len(log) : log[i][1] = "write" }
    IN  log[CHOOSE i \in w : \A k \in w : k <= i][2]

\* what the device may send in answer to the request req: a NACK, or an ACK and a
\* response frame for the request's function code and address, maybe with bytes behind it
ReplyStreams(req) ==
    {<<NACK>>} \cup
    UNION { LET h == FrameHead(MinPayloadLen + Len(d), 1, req[4], req[5] * 256 + req[6], d)
                f == h \o <<calc_crc(h)>>
            IN  { <<ACK>> \o f \o t : t \in Trails(f, MaxTrail) } :
            d \in { b \in DataBlocks(MaxData) : Len(b) = MaxData } }

\* what one read_all() may return after the request req when the bytes in read have
\* been read so far
ReplyChunks(req, read) ==
    UNION { { SubSeq(t, Len(read) + 1, j) : j \in Len(read) .. Len(t) } :
            t \in { u \in ReplyStreams(req) : IsPrefix(read, u) } }

DeviceMsgId == 1        \* byte 2 of a response message

\* what an item of a bytearray may be set to
IsByte(v) == v \in 0 .. 255

\* the length of the data block in the device's answer to the request frame f: the
\* bytes asked for by a Virtual_READ, none otherwise
AnswerLen(f) == IF f[4] = 1 THEN f[7] ELSE 0

\* the device's answer to the request frame f: ACK and a response frame with the
\* function code, address and block length of f
Answer(f) ==
    LET h == FrameHead(MinPayloadLen + AnswerLen(f), DeviceMsgId, f[4], f[5] * 256 + f[6],
                       [i \in 1 .. AnswerLen(f) |-> CHOOSE b \in DataBytes : TRUE])
        g == [h EXCEPT ![7] = f[7]]
    IN  <<ACK>> \o g \o <<calc_crc(g)>>

\* the answers the device owes for f: one, or none if the data asked for does not fit a frame
Answers(f) == IF IsByte(MinPayloadLen + AnswerLen(f)) THEN <<Answer(f)>> ELSE <<>>

\* Request that writes the frame before it discards the input buffer
Request_WriteThenReset(outbuff) ==
    /\ pc = "idle"
    /\ ser_log' = LogReset(LogWrite(ser_log, outbuff))
    /\ pc' = "rx"
    /\ resptelegr' = TRUE
    /\ polls' = 0
    /\ state' = 0
    /\ inbuff' = <<>>
    /\ alldata' = <<>>
    /\ retdata' = <<>>
    /\ addr' = 0
    /\ msgid' = Unset
    /\ msqn' = Unset
    /\ fctcd' = Unset
    /\ dlen' = -1
    /\ ser_in' = <<>>
    /\ owed' = owed \o Answers(outbuff)
    /\ UNCHANGED <<mqtt_publ_callback, ser2, result, published, ser2_written, vs2vars,
                   rawvars, regvars, handshake>>


\* the end of a request function: reset_input_buffer, write(outbuff),
\* receive_telegr(resptelegr=True, raw=False) up to its loop
Request(outbuff) ==
    /\ pc = "idle"
    /\ ser_log' = LogWrite(LogReset(ser_log), outbuff)
    /\ pc' = "rx"
    /\ resptelegr' = TRUE
    /\ polls' = 0
    /\ state' = 0
    /\ inbuff' = <<>>
    /\ alldata' = <<>>
    /\ retdata' = <<>>
    /\ addr' = 0
    /\ msgid' = Unset
    /\ msqn' = Unset
    /\ fctcd' = Unset
    /\ dlen' = -1
    /\ ser_in' = <<>>
    /\ owed' = owed \o Answers(outbuff)
    /\ UNCHANGED <<mqtt_publ_callback, ser2, result, published, ser2_written, vs2vars,
                   rawvars, regvars, handshake>>

\* Raise that discards the input buffer before the frame is built
Raise_AfterReset(c) ==
    /\ pc = "idle"
    /\ pc' = "raised"
    /\ result' = [exception |-> "ValueError", call |-> c]
    /\ ser_log' = LogReset(ser_log)
    /\ ser_in' = <<>>
    /\ UNCHANGED <<mqtt_publ_callback, ser2, resptelegr, polls, locals, published,
                   ser2_written, vs2vars, rawvars, reqvars, regvars, owed, handshake>>

\* the call c ends in the ValueError of an assignment "outbuff[i] = v" whose v is not
\* in range(0, 256); these assignments all come before reset_input_buffer
Raise(c) ==
    /\ pc = "idle"
    /\ pc' = "raised"
    /\ result' = [exception |-> "ValueError", call |-> c]
    /\ UNCHANGED <<mqtt_publ_callback, ser2, resptelegr, polls, locals, published,
                   ser2_written, ser_log, vs2vars, rawvars, reqvars, regvars, linevars>>

read_datapoint_ext ==
    \E a \in ReqAddrs, rdlen \in ReqLens \cup BadLens :
       IF IsByte(rdlen)
       THEN /\ call' = <<"read_datapoint_ext", a, rdlen>>
            /\ Request(ReadOutbuff(a, rdlen))
       ELSE Raise(<<"read_datapoint_ext", a, rdlen>>)

write_datapoint_ext ==
    \E a \in ReqAddrs, data \in ReqData \cup {LongData} :
       IF IsByte(5 + Len(data))
       THEN /\ call' = <<"write_datapoint_ext", a, data>>
            /\ Request(WriteOutbuff(a, data))
       ELSE Raise(<<"write_datapoint_ext", a, data>>)

do_request ==
    \E c \in ReqCodes, rlen \in {2} \cup BadLens, data \in {<<42>>, LongData} :
       IF IsByte(5 + Len(data)) /\ IsByte(c[2]) /\ IsByte(rlen)
       THEN /\ call' = <<"do_request", c[1], 10196, rlen, data, c[2]>>
            /\ Request(RequestOutbuff(c[1], 10196, rlen, data, c[2]))
       ELSE Raise(<<"do_request", c[1], 10196, rlen, data, c[2]>>)

\* Poll after a request: the bytes read are the device's answer to it
ReplyPoll ==
    /\ pc = "rx"
    /\ polls < PollBudget
    /\ \E inbytes \in ReplyChunks(LastWrite(ser_log), alldata) :
         LET l == Iteration(resptelegr,
                            Locals(state, inbuff \o inbytes, alldata \o inbytes, retdata,
                                   addr, msgid, msqn, fctcd, dlen, NoReturn))
         IN  /\ ser_log' = LogRead(ser_log, inbytes)
             /\ ser2_written' = IF ser2 THEN ser2_written \o inbytes ELSE ser2_written
             /\ SetLocals(l)
             /\ IF l.ret # NoReturn THEN Return(l.ret, FALSE)
                ELSE UNCHANGED <<pc, result, published>>
    /\ polls' = polls + 1
    /\ UNCHANGED <<mqtt_publ_callback, ser2, resptelegr, vs2vars, rawvars, reqvars, regvars, linevars>>

\* PollMirrorFails after a request
ReplyPollMirrorFails ==
    /\ pc = "rx"
    /\ polls < PollBudget
    /\ ser2
    /\ \E inbytes \in ReplyChunks(LastWrite(ser_log), alldata) \ {<<>>} :
         /\ ser_log' = LogRead(ser_log, inbytes)
         /\ inbuff' = inbuff \o inbytes
         /\ alldata' = alldata \o inbytes
    /\ polls' = polls + 1
    /\ result' = <<RC_HandleLost, 0, retdata>>
    /\ pc' = "done"
    /\ UNCHANGED <<mqtt_publ_callback, ser2, resptelegr, state, retdata, addr, msgid,
                   msqn, fctcd, dlen, published, ser2_written, vs2vars, rawvars, reqvars, regvars, linevars>>

RequestNext ==
    \/ read_datapoint_ext
    \/ write_datapoint_ext
    \/ do_request
    \/ ReplyPoll
    \/ PollReadFails
    \/ ReplyPollMirrorFails
    \/ LoopExit

RequestSpec == Init /\ [][RequestNext]_vars

\* ------------------------------------------------------------------
\* A session: its owner makes one call after the other on the same transport
\* ------------------------------------------------------------------
MaxOwed == 2            \* most answers the device may owe when the owner makes a call

\* the calls of the session use neither the secondary transport nor the publish hook
SessionInit == Init /\ ~ser2 /\ ~mqtt_publ_callback

\* the call has returned to the owner, who takes the result and may make the next
\* call: nothing of the call is left but the line; a call that returned with no
\* request recorded is an init_vs2, whose result is a boolean
Release ==
    /\ pc \in {"done", "raised"}
    /\ Len(owed) < MaxOwed
    /\ handshake' = IF pc = "done" /\ call = <<>>
                    THEN (IF result THEN "ok" ELSE "failed")
                    ELSE handshake
    /\ pc' = "idle"
    /\ result' = <<>>
    /\ call' = <<>>
    /\ ser_log' = <<>>
    /\ polls' = 0
    /\ ack_polls' = 0
    /\ state' = 0
    /\ inbuff' = <<>>
    /\ alldata' = <<>>
    /\ retdata' = <<>>
    /\ addr' = 0
    /\ msgid' = Unset
    /\ msqn' = Unset
    /\ fctcd' = Unset
    /\ dlen' = -1
    /\ UNCHANGED <<mqtt_publ_callback, ser2, resptelegr, published, ser2_written,
                   rawvars, regvars, ser_in, owed>>

\* the oldest answer the device owes arrives in the input buffer, at any time after
\* its request was written
Arrive ==
    /\ owed # <<>>
    /\ ser_in' = ser_in \o Head(owed)
    /\ owed' = Tail(owed)
    /\ UNCHANGED <<pc, mqtt_publ_callback, ser2, resptelegr, polls, locals, result, published,
                   ser2_written, ser_log, vs2vars, rawvars, reqvars, regvars, handshake>>

\* Poll in a session: read_all returns the whole input buffer
SessionPoll ==
    /\ pc = "rx"
    /\ polls < PollBudget
    /\ LET inbytes == ser_in
           l == Iteration(resptelegr,
                          Locals(state, inbuff \o inbytes, alldata \o inbytes, retdata,
                                 addr, msgid, msqn, fctcd, dlen, NoReturn))
       IN  /\ ser_log' = LogRead(ser_log, inbytes)
           /\ ser_in' = <<>>
           /\ ser2_written' = IF ser2 THEN ser2_written \o inbytes ELSE ser2_written
           /\ SetLocals(l)
           /\ IF l.ret # NoReturn THEN Return(l.ret, FALSE)
              ELSE UNCHANGED <<pc, result, published>>
    /\ polls' = polls + 1
    /\ UNCHANGED <<mqtt_publ_callback, ser2, resptelegr, vs2vars, rawvars, reqvars, regvars,
                   owed, handshake>>

SessionNext ==
    \/ read_datapoint_ext
    \/ write_datapoint_ext
    \/ do_request
    \/ Arrive
    \/ SessionPoll
    \/ LoopExit
    \/ Release

SessionSpec == SessionInit /\ [][SessionNext]_vars

\* the owner of a session calls init_vs2 and the requests in any order; the device
\* answers the handshake and leaves the requests unanswered
OwnerNext ==
    \/ Vs2Next
    \/ read_datapoint_ext
    \/ write_datapoint_ext
    \/ do_request
    \/ SessionPoll
    \/ LoopExit
    \/ Release

OwnerSpec == SessionInit /\ [][OwnerNext]_vars

\* ------------------------------------------------------------------
\* A request frame on the receiving side: the frame write_datapoint_ext builds is
\* what receive_telegr(resptelegr=False) finds on its transport
\* ------------------------------------------------------------------
FullData == zeros(250)      \* the longest data of a write: 5 + 250 = 255
ChunkSizes == {1, 2}        \* the sizes of the pieces in which the frame may arrive, besides all the rest

\* address and data of the writes whose frames are received
LoopInputs == (ReqAddrs \X ReqData) \cup {<<65535, FullData>>}

\* receive_telegr(resptelegr=False, raw=False) is called where the frame of
\* write_datapoint_ext(a, data) is about to arrive
LoopbackCall ==
    /\ pc = "idle"
    /\ pc' = "rx"
    /\ \E w \in LoopInputs :
         /\ call' = <<"loopback", w[1], w[2]>>
         /\ owed' = <<WriteOutbuff(w[1], w[2])>>
    /\ resptelegr' = FALSE
    /\ polls' = 0
    /\ UNCHANGED <<mqtt_publ_callback, ser2, locals, result, published, ser2_written, ser_log,
                   ack_polls, rawvars, regvars, ser_in, handshake>>

\* the next piece of the frame arrives in the empty input buffer
Trickle ==
    /\ pc = "rx"
    /\ owed # <<>>
    /\ ser_in = <<>>
    /\ \E k \in { n \in ChunkSizes : n < Len(Head(owed)) } \cup {Len(Head(owed))} :
         /\ ser_in' = SubSeq(Head(owed), 1, k)
         /\ owed' = IF k = Len(Head(owed)) THEN <<>>
                    ELSE <<SubSeq(Head(owed), k + 1, Len(Head(owed)))>>
    /\ UNCHANGED <<pc, mqtt_publ_callback, ser2, resptelegr, polls, locals, result, published,
                   ser2_written, ser_log, vs2vars, rawvars, reqvars, regvars, handshake>>

LoopbackNext == LoopbackCall \/ Trickle \/ SessionPoll \/ LoopExit

LoopbackSpec == SessionInit /\ [][LoopbackNext]_vars

\* ------------------------------------------------------------------
\* Vocabulary of the properties
\* ------------------------------------------------------------------
Returned == pc = "done"
Code == result[1]
\* the call ended on the "except Exception" path
TransportFailed == Returned /\ Code = RC_HandleLost
\* the call is running or has returned, and the transport did not fail
Receiving == pc \in {"rx", "done"} /\ ~TransportFailed

\* address and data block a frame f carries (f[1] = STX, f[2] = length byte)
FrameAddr(f) == f[5] * 256 + f[6]
FrameData(f) == SubSeq(f, 8, f[2] + 2)
\* the checksum byte a frame f stores, at offset f[2] + 2 of the source's 0-based buffer
StoredCrc(f) == f[f[2] + 3]
\* the sum of the length byte and the f[2] bytes after it, modulo 256
FrameSum(f) == SumSeq(SubSeq(f, 2, f[2] + 2)) % 256

\* the buffer holds a started frame with a valid length byte and at least all its bytes
FrameBuffered ==
    /\ state = 2
    /\ Len(inbuff) > 1
    /\ inbuff[2] >= MinPayloadLen
    /\ Len(inbuff) >= inbuff[2] + 3

\* f is a complete frame, no byte more, with a right checksum and no error-message id
WellFormed(f) ==
    /\ Len(f) > 1
    /\ f[1] = STX
    /\ f[2] >= MinPayloadLen
    /\ Len(f) = f[2] + 3
    /\ StoredCrc(f) = FrameSum(f)
    /\ f[3] % 16 # ErrorMsgId

\* ------------------------------------------------------------------
\* C1: with resptelegr set, when the bytes read during the call are an ACK followed by
\* one well-formed frame and the transport did not fail, the call returns Success with
\* the frame's address and data block, however the bytes were spread over the polls.
\* ------------------------------------------------------------------
C1_AckThenFrameSucceeds ==
    (/\ Returned
     /\ ~TransportFailed
     /\ resptelegr
     /\ Len(alldata) > 1
     /\ alldata[1] = ACK
     /\ WellFormed(Tail(alldata)))
    => result = <<RC_Success, FrameAddr(Tail(alldata)), FrameData(Tail(alldata))>>

\* ------------------------------------------------------------------
\* C2: with a publish hook configured, every return of receive_telegr has been preceded
\* by exactly one call of the hook, whose code, address and data are the returned ones.
\* ------------------------------------------------------------------
C2_EveryReturnPublished ==
    (Returned /\ mqtt_publ_callback)
    => /\ Len(published) = 1
       /\ <<published[1][1], published[1][2], published[1][3]>> = result

\* ------------------------------------------------------------------
\* C3: a frame that was classified (Success, ErrorMessage or ChecksumError) is exactly
\* the first L + 3 buffered bytes, and the code is ChecksumError exactly when the byte
\* stored at offset L + 2 differs from the computed checksum, whatever was buffered
\* behind the frame.
\* ------------------------------------------------------------------
C3_TrailingBytesIgnored ==
    (Returned /\ Code \in {RC_Success, RC_ErrorMessage, RC_CrcError})
    => /\ Len(inbuff) = inbuff[2] + 3
       /\ (Code = RC_CrcError) <=> (StoredCrc(inbuff) # FrameSum(inbuff))

\* ------------------------------------------------------------------
\* C4: a complete frame whose stored checksum byte differs from the computed checksum
\* is returned as ChecksumError with the frame's address and data block, never as
\* Success or ErrorMessage.
\* ------------------------------------------------------------------
C4_BadChecksumIsCrcError ==
    (Returned /\ ~TransportFailed /\ FrameBuffered /\ StoredCrc(inbuff) # FrameSum(inbuff))
    => result = <<RC_CrcError, FrameAddr(inbuff), FrameData(inbuff)>>

\* ------------------------------------------------------------------
\* C5: the loop never runs more than 600 polls; Timeout is returned only after exactly
\* 600 polls and carries the last known address and data block, which are 0 and empty;
\* a call during which no byte was read and the transport did not fail ends in Timeout.
\* ------------------------------------------------------------------
C5_Timeout ==
    /\ pc = "rx" => polls <= PollBudget
    /\ (Returned /\ Code = RC_Timeout)
       => /\ polls = PollBudget
          /\ result = <<RC_Timeout, addr, retdata>>
          /\ result = <<RC_Timeout, 0, <<>> >>
    /\ (Returned /\ ~TransportFailed /\ alldata = <<>>) => Code = RC_Timeout

\* a partial frame was read and the call timed out
C5_Witness ==
    /\ Returned
    /\ Code = RC_Timeout
    /\ polls = PollBudget
    /\ Len(alldata) > 2
    /\ state = 2

\* ------------------------------------------------------------------
\* C6: with resptelegr set, the first byte read in the call decides the gate in the poll
\* that reads it: NACK ends the call with NackError, a byte that is neither ACK nor NACK
\* ends it with UnknownFirstByte, and an ACK is taken out of the buffer so that it is
\* never the byte tested against the start-of-frame marker.
\* ------------------------------------------------------------------
C6_FirstByteDecidesGate ==
    (Receiving /\ resptelegr /\ alldata # <<>>)
    => /\ alldata[1] = NACK => (Returned /\ Code = RC_Nack)
       /\ alldata[1] \notin {ACK, NACK} => (Returned /\ Code = RC_Byte0Unknown)
       /\ alldata[1] = ACK => /\ Len(inbuff) < Len(alldata)
                              /\ (Returned /\ Code = RC_StxError)
                                   => (Len(alldata) > 1 /\ alldata[2] # STX)

\* ------------------------------------------------------------------
\* C7: the first byte behind the gate (behind the ACK when resptelegr is set, the first
\* byte of the call otherwise) that is not the start-of-frame marker ends the call with
\* FrameStartError in the poll that reads it, also when a start-of-frame marker follows.
\* ------------------------------------------------------------------
FirstFrameByte == IF resptelegr THEN 2 ELSE 1

C7_StartByte ==
    (/\ Receiving
     /\ Len(alldata) >= FirstFrameByte
     /\ resptelegr => alldata[1] = ACK
     /\ alldata[FirstFrameByte] # STX)
    => (Returned /\ Code = RC_StxError)

\* the gate took an ACK out of the buffer, the next byte was no start-of-frame marker and
\* a start-of-frame marker came right behind it
C7_Witness ==
    /\ Returned
    /\ Code = RC_StxError
    /\ resptelegr
    /\ Len(alldata) = 3
    /\ alldata[1] = ACK
    /\ alldata[2] # STX
    /\ alldata[3] = STX
    /\ inbuff = Tail(alldata)

\* ------------------------------------------------------------------
\* C8: a started frame whose length byte is below 5 ends the call with LengthError in
\* the poll that reads the length byte, whatever was read behind it.
\* ------------------------------------------------------------------
C8_ShortLength ==
    (Receiving /\ state = 2 /\ Len(inbuff) > 1 /\ inbuff[2] < MinPayloadLen)
    => (Returned /\ Code = RC_LengthError)

\* a length byte below 5 was read together with a byte behind it
C8_Witness ==
    /\ Returned
    /\ Code = RC_LengthError
    /\ Len(inbuff) = 3
    /\ inbuff[1] = STX
    /\ inbuff[2] = MinPayloadLen - 1

\* ------------------------------------------------------------------
\* C9: for a complete frame the code is ErrorMessage exactly when the stored checksum
\* byte equals the computed checksum and the low nibble of the protocol-id byte is 3,
\* and ErrorMessage carries the frame's address and data block.
\* ------------------------------------------------------------------
C9_ErrorMessageIff ==
    (Returned /\ ~TransportFailed /\ FrameBuffered)
    => /\ (Code = RC_ErrorMessage)
            <=> (StoredCrc(inbuff) = FrameSum(inbuff) /\ inbuff[3] % 16 = ErrorMsgId)
       /\ Code = RC_ErrorMessage
            => result = <<RC_ErrorMessage, FrameAddr(inbuff), FrameData(inbuff)>>

\* ------------------------------------------------------------------
\* C10: the returned code, address and data depend only on resptelegr and on the bytes
\* read during the call, not on the polls in which they were read: they are what the
\* call returns when the same bytes are all read in the first poll.
\* ------------------------------------------------------------------
\* the result of a call whose first read_all returns bytes and every later one nothing
ReadAtOnce(resp, bytes) ==
    LET l == Iteration(resp, Locals(0, bytes, bytes, <<>>, 0, Unset, Unset, Unset, -1, NoReturn))
    IN  IF l.ret # NoReturn THEN <<l.ret[1], l.ret[2], l.ret[3]>>
        ELSE <<RC_Timeout, 0, <<>> >>

C10_ChunkingIndependent ==
    (Returned /\ ~TransportFailed) => result = ReadAtOnce(resptelegr, alldata)

\* ------------------------------------------------------------------
\* receive_fullraw
\* ------------------------------------------------------------------
\* time.time() is counted in clock ticks; eot_time and timeout are given in ticks
MaxEot == 1             \* largest eot_time
MaxTimeout == 2         \* largest timeout
MaxSleep == 2           \* most ticks from the timeout test of one poll to the read of the next
MaxRawBytes == 3        \* most bytes the device sends during one call

RawBytes == {6, 65}     \* bytes on the line; 0x06 and 0x41 mean nothing here

\* what one read_all() may return when the bytes in read have been read so far
RawChunks(read) ==
    {<<>>} \cup { c \in { <<b>> : b \in RawBytes } \cup { <<a, b>> : a, b \in RawBytes } :
                    Len(read) + Len(c) <= MaxRawBytes }

\* entry of receive_fullraw(eot_time, timeout) up to the loop
receive_fullraw ==
    /\ pc = "idle"
    /\ \E e \in 0 .. MaxEot, t \in 0 .. MaxTimeout :
         /\ eot_time' = e
         /\ timeout' = t
         /\ call' = <<"receive_fullraw", e, t>>
    /\ inbuff' = <<>>
    /\ start' = now
    /\ last_rx' = now
    /\ pc' = "raw"
    /\ UNCHANGED <<mqtt_publ_callback, ser2, resptelegr, polls, state, alldata, retdata,
                   addr, msgid, msqn, fctcd, dlen, result, published, ser2_written,
                   ser_log, ack_polls, now, regvars, linevars>>

\* RawPoll that tests the overall timeout ahead of the quiet period
RawPoll_TimeoutFirst ==
    /\ pc = "raw"
    /\ \E inbytes \in RawChunks(inbuff), d \in 0 .. 1, sl \in 0 .. MaxSleep :
         /\ ser_log' = LogRead(ser_log, inbytes)
         /\ inbuff' = inbuff \o inbytes
         /\ last_rx' = IF inbytes # <<>> THEN now ELSE last_rx
         /\ ser2_written' = IF ser2 THEN ser2_written \o inbytes ELSE ser2_written
         /\ IF (now + d) - start > timeout
            THEN /\ result' = <<RC_Timeout, bytearray(inbuff')>>
                 /\ now' = now + d
                 /\ pc' = "done"
            ELSE IF inbytes = <<>> /\ inbuff # <<>> /\ now - last_rx > eot_time
            THEN /\ result' = <<RC_Success, bytearray(inbuff)>>
                 /\ pc' = "done"
                 /\ UNCHANGED now
            ELSE /\ now' = now + d + sl
                 /\ UNCHANGED <<pc, result>>
    /\ UNCHANGED <<mqtt_publ_callback, ser2, resptelegr, polls, state, alldata, retdata,
                   addr, msgid, msqn, fctcd, dlen, published, ack_polls, eot_time, timeout,
                   start, call, regvars, linevars>>

\* one iteration of the loop of receive_fullraw. now is the clock when the iteration
\* reads it first (for last_rx or the quiet period); the clock may have moved on by d
\* when the timeout is tested, and moves on by sl until the next iteration
RawPoll ==
    /\ pc = "raw"
    /\ \E inbytes \in RawChunks(inbuff), d \in 0 .. 1, sl \in 0 .. MaxSleep :
         /\ ser_log' = LogRead(ser_log, inbytes)
         /\ inbuff' = inbuff \o inbytes
         /\ last_rx' = IF inbytes # <<>> THEN now ELSE last_rx
         /\ ser2_written' = IF ser2 THEN ser2_written \o inbytes ELSE ser2_written
         /\ IF inbytes = <<>> /\ inbuff # <<>> /\ now - last_rx > eot_time
            THEN /\ result' = <<RC_Success, bytearray(inbuff)>>
                 /\ pc' = "done"
                 /\ UNCHANGED now
            ELSE IF (now + d) - start > timeout
            THEN /\ result' = <<RC_Timeout, bytearray(inbuff')>>
                 /\ now' = now + d
                 /\ pc' = "done"
            ELSE /\ now' = now + d + sl
                 /\ UNCHANGED <<pc, result>>
    /\ UNCHANGED <<mqtt_publ_callback, ser2, resptelegr, polls, state, alldata, retdata,
                   addr, msgid, msqn, fctcd, dlen, published, ack_polls, eot_time, timeout,
                   start, call, regvars, linevars>>

RawNext == receive_fullraw \/ RawPoll

RawSpec == Init /\ [][RawNext]_vars

\* ------------------------------------------------------------------
\* Python values used by the register class
\* ------------------------------------------------------------------
\* An int of any size is [neg, mag]: mag holds its magnitude in base 256, least
\* significant digit first, without a zero as last digit (0 is <<>>, never negative).
Reverse(s) == [i \in 1 .. Len(s) |-> s[Len(s) + 1 - i]]

RECURSIVE StripZeros(_)
StripZeros(s) ==
    IF s # <<>> /\ s[Len(s)] = 0 THEN StripZeros(SubSeq(s, 1, Len(s) - 1)) ELSE s

MkInt(neg, mag) == [neg |-> neg /\ StripZeros(mag) # <<>>, mag |-> StripZeros(mag)]

\* s + 1 on Len(s) digits, the carry out of the last digit dropped
RECURSIVE AddOne(_)
AddOne(s) ==
    IF s = <<>> THEN <<>>
    ELSE IF Head(s) < 255 THEN <<Head(s) + 1>> \o Tail(s)
    ELSE <<0>> \o AddOne(Tail(s))

\* two's complement on Len(s) digits
Complement(s) == AddOne([i \in 1 .. Len(s) |-> 255 - s[i]])

\* int.from_bytes(bytes, byteorder=..., signed=...)
int_from_bytes(bytes, byteorder, signed) ==
    LET le == IF byteorder = "big" THEN Reverse(bytes) ELSE bytes
    IN  IF signed /\ le # <<>> /\ le[Len(le)] >= 128
        THEN MkInt(TRUE, Complement(le))
        ELSE MkInt(FALSE, le)

\* the digits ms (most significant first) with rem carried in, divided by 10:
\* <<quotient, most significant digit first; remainder>>
RECURSIVE Div10(_, _)
Div10(ms, rem) ==
    IF ms = <<>> THEN << <<>>, rem >>
    ELSE LET cur == rem * 256 + Head(ms)
             r == Div10(Tail(ms), cur % 10)
         IN  << <<cur \div 10>> \o r[1], r[2] >>

DecimalDigits == <<"0", "1", "2", "3", "4", "5", "6", "7", "8", "9">>
HexDigits == DecimalDigits \o <<"a", "b", "c", "d", "e", "f">>

RECURSIVE DecimalOf(_)
DecimalOf(mag) ==
    IF mag = <<>> THEN <<>>
    ELSE LET r == Div10(Reverse(mag), 0)
         IN  DecimalOf(StripZeros(Reverse(r[1]))) \o <<DecimalDigits[r[2] + 1]>>

\* str(value) of an int
str(value) ==
    IF value.mag = <<>> THEN <<"0">>
    ELSE (IF value.neg THEN <<"-">> ELSE <<>>) \o DecimalOf(value.mag)

\* rawdata.hex()
RECURSIVE hex(_)
hex(data) ==
    IF data = <<>> THEN <<>>
    ELSE <<HexDigits[(Head(data) \div 16) + 1], HexDigits[(Head(data) % 16) + 1]>> \o hex(Tail(data))

\* str.strip(), str.replace(old, new) for one-character old and new, str.lower(),
\* str.endswith(suffix) for a one-character suffix
Whitespace == {" ", "\t", "\n"}

RECURSIVE strip(_)
strip(s) ==
    IF s # <<>> /\ Head(s) \in Whitespace THEN strip(Tail(s))
    ELSE IF s # <<>> /\ s[Len(s)] \in Whitespace THEN strip(SubSeq(s, 1, Len(s) - 1))
    ELSE s

replace(s, old, new) == [i \in 1 .. Len(s) |-> IF s[i] = old THEN new ELSE s[i]]

UpperCase == <<"A", "B", "C", "D", "E", "F", "G", "H", "I", "J", "K", "L", "M",
               "N", "O", "P", "Q", "R", "S", "T", "U", "V", "W", "X", "Y", "Z">>
LowerCase == <<"a", "b", "c", "d", "e", "f", "g", "h", "i", "j", "k", "l", "m",
               "n", "o", "p", "q", "r", "s", "t", "u", "v", "w", "x", "y", "z">>

lower(s) ==
    [i \in 1 .. Len(s) |->
        IF \E k \in 1 .. 26 : UpperCase[k] = s[i]
        THEN LowerCase[CHOOSE k \in 1 .. 26 : UpperCase[k] = s[i]]
        ELSE s[i]]

endswith(s, c) == s # <<>> /\ s[Len(s)] = c

\* ------------------------------------------------------------------
\* OptolinkVS2Register
\* ------------------------------------------------------------------
None == <<>>

\* the defaults of the constructor's parameters
DefaultName == <<"e", "x", "t", "e", "r", "n", "a", "l", "_", "t", "e", "m", "p", "e", "r", "a", "t", "u", "r", "e">>
DefaultAddress == 257           \* 0x0101
DefaultLength == 2
DefaultPeriod == 1

\* arguments the constructor is called with
SamplingPeriods == {DefaultPeriod, 60}
Names == { <<"T", "e", "m", "p", "e", "r", "a", "t", "u", "r", "e">>, <<" ", "A", " ", " ", "b", "\t">>, <<"a", "\t", "-", "B">> }
BaseTopics == { <<"h">>, <<"h", "/">> }
RegAddresses == {248, 4660}         \* 0x00F8, 0x1234
Lengths == {1, 2, 3, 4, 8}
Platforms == {"sensor", "switch"}
Discoveries == {None} \cup { [name |-> <<"S">>, platform |-> p] : p \in Platforms }

\* the bytes a register of the given length may be read as
SampleBytes == {0, 1, 18, 52, 255}
Rawdata(length) ==
    { [i \in 1 .. length |-> IF i % 2 = 1 THEN a ELSE b] : a, b \in SampleBytes }
      \cup { [i \in 1 .. length |-> i], [i \in 1 .. length |-> 170 + 17 * ((i - 1) % 4)] }

\* __init__ that stores the base topic as it was given
OptolinkVS2Register_KeepsSlash(name, sampling_period_sec, address, length, signed, mqtt_base_topic, ha_discovery) ==
    [name |-> name,
     sampling_period_sec |-> sampling_period_sec,
     mqtt_base_topic |-> mqtt_base_topic,
     address |-> address,
     length |-> length,
     signed |-> signed,
     ha_discovery |-> ha_discovery]

\* __init__: the attributes of the new object
OptolinkVS2Register(name, sampling_period_sec, address, length, signed, mqtt_base_topic, ha_discovery) ==
    [name |-> name,
     sampling_period_sec |-> sampling_period_sec,
     mqtt_base_topic |-> IF endswith(mqtt_base_topic, "/")
                         THEN SubSeq(mqtt_base_topic, 1, Len(mqtt_base_topic) - 1)
                         ELSE mqtt_base_topic,
     address |-> address,
     length |-> length,
     signed |-> signed,
     ha_discovery |-> ha_discovery]

get_next_occurrence_in_seconds(self) == self.sampling_period_sec

\* sanitized_name that collapses a run of spaces into one underscore
sanitized_name_Collapsing(self) ==
    LET r == lower(replace(strip(self.name), " ", "_"))
        keep == {i \in 1 .. Len(r) : ~(i > 1 /\ r[i] = "_" /\ r[i - 1] = "_")}
    IN  [k \in 1 .. Cardinality(keep) |->
            r[CHOOSE i \in keep : Cardinality({j \in keep : j <= i}) = k]]

\* the local sanitized_name of get_mqtt_topic
sanitized_name(self) == lower(replace(strip(self.name), " ", "_"))

get_mqtt_topic(self) == self.mqtt_base_topic \o <<"/">> \o sanitized_name(self)

IsInt(value) == DOMAIN value = {"neg", "mag"}

\* DecodedValue with byteorder="little" and an int for every length
DecodedValue_Little(self, rawdata) == int_from_bytes(rawdata, "little", self.signed)

\* the local value of get_mqtt_payload: lengths 1, 2 and 4 are read as a big-endian
\* int, any other length gives the hex digits of the bytes
DecodedValue(self, rawdata) ==
    IF self.length \in {1, 2, 4} THEN int_from_bytes(rawdata, "big", self.signed)
    ELSE hex(rawdata)

\* get_mqtt_payload: "return str(value)"
get_mqtt_payload(self, rawdata) ==
    LET value == DecodedValue(self, rawdata)
    IN  IF IsInt(value) THEN str(value) ELSE value

\* ------------------------------------------------------------------
\* The register definition of the specification: what the class does not hold
\* ------------------------------------------------------------------
\* enumMapping: integer code -> display name
EnumMapping == (0 :> <<"O", "F", "F">>) @@ (1 :> <<"O", "N">>)
Enums == {None, EnumMapping}
\* byteFilter: <<i, j>> selects the offsets i .. j inclusive
ByteFilters == {None, <<1, 2>>}

\* the definition as it was configured: the base topic as given, and the fields the
\* class does not keep
RegisterDefinition(mqtt_base_topic, writable, byte_filter, enum) ==
    [mqtt_base_topic |-> mqtt_base_topic, writable |-> writable,
     byte_filter |-> byte_filter, enum |-> enum]

\* the texts a value is encoded from
Texts == { <<"0">>, <<"1">>, <<"-", "1">>, <<"2", "5", "5">>, <<"2", "5", "6">>, <<"1", "2", "8">>, <<"-", "1", "2", "8">>, <<"-", "1", "2", "9">>, <<"4", "6", "6", "0">>, <<"6", "5", "5", "3", "5">>, <<"6", "5", "5", "3", "6">>, <<"-", "3", "2", "7", "6", "8">>, <<"-", "3", "2", "7", "6", "9">>, <<"O", "F", "F">>, <<"O", "N">>, <<"I", "N", "V", "A", "L", "I", "D">>, <<"1", "x">>, <<"-">>, <<>> }
DeviceIds == { <<"M", "y", "H", "e", "a", "t", "e", "r">> }

\* int(text): an optional minus sign and decimal digits
RECURSIVE MulAdd(_, _, _)
MulAdd(mag, m, a) ==
    IF mag = <<>> THEN (IF a = 0 THEN <<>> ELSE <<a>>)
    ELSE LET cur == Head(mag) * m + a
         IN  <<cur % 256>> \o MulAdd(Tail(mag), m, cur \div 256)

RECURSIVE ParseDigits(_, _)
ParseDigits(text, acc) ==
    IF text = <<>> THEN acc
    ELSE ParseDigits(Tail(text),
                     MulAdd(acc, 10, (CHOOSE d \in 1 .. 10 : DecimalDigits[d] = Head(text)) - 1))

AllDigits(text) ==
    text # <<>> /\ \A i \in 1 .. Len(text) : \E d \in 1 .. 10 : DecimalDigits[d] = text[i]

\* a call returns a value or raises an exception
Returning(value) == [returns |-> value]
HasReturned(outcome) == DOMAIN outcome = {"returns"}
ValueError == [exception |-> "ValueError"]
OverflowError == [exception |-> "OverflowError"]
InvalidEnumValue(text) == [exception |-> "ValueError", message |-> <<"Invalid value", text>>]

int(text) ==
    IF AllDigits(text) THEN MkInt(FALSE, ParseDigits(text, <<>>))
    ELSE IF text # <<>> /\ Head(text) = "-" /\ AllDigits(Tail(text))
    THEN MkInt(TRUE, ParseDigits(Tail(text), <<>>))
    ELSE ValueError

\* value fits length bytes, unsigned or two's complement
Fits(value, length, signed) ==
    LET n == Len(value.mag)
    IN  IF ~signed THEN ~value.neg /\ n <= length
        ELSE \/ n < length
             \/ /\ n = length
                /\ n > 0
                /\ \/ value.mag[n] < 128
                   \/ /\ value.neg
                      /\ value.mag[n] = 128
                      /\ \A i \in 1 .. n - 1 : value.mag[i] = 0

\* int_to_bytes that keeps the low bytes of a value that does not fit
int_to_bytes_Wrapping(value, length, byteorder, signed) ==
    LET padded == [i \in 1 .. length |-> IF i <= Len(value.mag) THEN value.mag[i] ELSE 0]
        le == IF value.neg THEN Complement(padded) ELSE padded
    IN  Returning(IF byteorder = "big" THEN Reverse(le) ELSE le)

\* value.to_bytes(length, byteorder=..., signed=...)
int_to_bytes(value, length, byteorder, signed) ==
    LET padded == [i \in 1 .. length |-> IF i <= Len(value.mag) THEN value.mag[i] ELSE 0]
        le == IF value.neg THEN Complement(padded) ELSE padded
    IN  IF ~Fits(value, length, signed) THEN OverflowError
        ELSE Returning(IF byteorder = "big" THEN Reverse(le) ELSE le)

\* the mapped code a value is, if any
EnumCode(enum, value) ==
    { c \in DOMAIN enum : IsInt(value) /\ value = MkInt(FALSE, <<c>>) }

\* decoding (valueFromRaw): the byte filter, the integer as get_mqtt_payload reads it,
\* the enum lookup
get_value_from_rawdata(self, def, rawdata) ==
    LET filtered == IF def.byte_filter = None THEN rawdata
                    ELSE SubSeq(rawdata, def.byte_filter[1] + 1,
                                Min(def.byte_filter[2] + 1, Len(rawdata)))
        value == DecodedValue(self, filtered)
    IN  IF def.enum = None THEN get_mqtt_payload(self, filtered)
        ELSE IF EnumCode(def.enum, value) # {}
        THEN def.enum[CHOOSE c \in EnumCode(def.enum, value) : TRUE]
        ELSE <<"U", "n", "k", "n", "o", "w", "n", " ", "(">> \o (IF IsInt(value) THEN str(value) ELSE value) \o <<")">>

\* encoding (rawFromValue): reverse enum lookup or int(text), then length bytes,
\* little-endian
get_rawdata_from_value(self, def, text) ==
    LET value == IF def.enum # None
                 THEN IF \E c \in DOMAIN def.enum : def.enum[c] = text
                      THEN MkInt(FALSE, <<CHOOSE c \in DOMAIN def.enum : def.enum[c] = text>>)
                      ELSE InvalidEnumValue(text)
                 ELSE int(text)
    IN  IF IsInt(value) THEN int_to_bytes(value, self.length, "little", self.signed)
        ELSE value

\* unique id that writes the address high byte first
get_ha_unique_id_HighFirst(self, device_id) ==
    device_id \o <<"-">> \o sanitized_name(self) \o <<"-">>
      \o hex(<<(self.address \div 256) % 256, self.address % 256>>)

\* unique id: device id, sanitized name, the address as two bytes, low byte first, in hex
get_ha_unique_id(self, device_id) ==
    device_id \o <<"-">> \o sanitized_name(self) \o <<"-">>
      \o hex(<<self.address % 256, (self.address \div 256) % 256>>)


\* ------------------------------------------------------------------
\* The life of a register: construction, then its methods in any order
\* ------------------------------------------------------------------
\* the session, which no method of a register touches
sessionvars == <<pc, mqtt_publ_callback, ser2, resptelegr, polls, locals, result, published,
                 ser2_written, ser_log, vs2vars, rawvars, reqvars, linevars>>

\* OptolinkVS2Register(...): callers that name the register (the codec arguments
\* are left at their defaults) and callers that type it (the others at their defaults)
Construct ==
    /\ reg = None
    /\ \/ \E name \in Names, period \in SamplingPeriods, address \in RegAddresses,
             base \in BaseTopics, ha_discovery \in Discoveries, writable \in BOOLEAN :
            /\ reg' = OptolinkVS2Register(name, period, address, DefaultLength, FALSE, base,
                                          ha_discovery)
            /\ ext' = RegisterDefinition(base, writable, None, None)
       \/ \E length \in Lengths, signed \in BOOLEAN, byte_filter \in ByteFilters,
             enum \in Enums :
            /\ reg' = OptolinkVS2Register(DefaultName, DefaultPeriod, DefaultAddress, length,
                                          signed, <<>>, None)
            /\ ext' = RegisterDefinition(<<>>, FALSE, byte_filter, enum)
    /\ UNCHANGED <<out, sessionvars>>

GetNextOccurrence ==
    /\ reg # None
    /\ out' = <<"get_next_occurrence_in_seconds", get_next_occurrence_in_seconds(reg)>>
    /\ UNCHANGED <<reg, ext, sessionvars>>

\* get_mqtt_topic that keeps the sanitized name in self.name
GetMqttTopic_StoresName ==
    /\ reg # None
    /\ out' = <<"get_mqtt_topic", get_mqtt_topic(reg)>>
    /\ reg' = [reg EXCEPT !.name = sanitized_name(reg)]
    /\ UNCHANGED <<ext, sessionvars>>

GetMqttTopic ==
    /\ reg # None
    /\ out' = <<"get_mqtt_topic", get_mqtt_topic(reg)>>
    /\ UNCHANGED <<reg, ext, sessionvars>>

GetMqttPayload ==
    /\ reg # None
    /\ \E rawdata \in Rawdata(reg.length) :
         out' = <<"get_mqtt_payload", rawdata, get_mqtt_payload(reg, rawdata)>>
    /\ UNCHANGED <<reg, ext, sessionvars>>

GetValueFromRawdata ==
    /\ reg # None
    /\ \E rawdata \in Rawdata(reg.length) :
         out' = <<"get_value_from_rawdata", rawdata, get_value_from_rawdata(reg, ext, rawdata)>>
    /\ UNCHANGED <<reg, ext, sessionvars>>

\* the text is one of Texts or what the last decoding returned
GetRawdataFromValue ==
    /\ reg # None
    /\ \E text \in Texts \cup (IF out # <<>> /\ out[1] \in {"get_mqtt_payload", "get_value_from_rawdata"}
                              THEN {out[3]} ELSE {}) :
         out' = <<"get_rawdata_from_value", text, get_rawdata_from_value(reg, ext, text)>>
    /\ UNCHANGED <<reg, ext, sessionvars>>

GetHaUniqueId ==
    /\ reg # None
    /\ \E device_id \in DeviceIds :
         out' = <<"get_ha_unique_id", device_id, get_ha_unique_id(reg, device_id)>>
    /\ UNCHANGED <<reg, ext, sessionvars>>

RegisterNext ==
    \/ Construct
    \/ GetNextOccurrence
    \/ GetMqttTopic
    \/ GetMqttPayload
    \/ GetValueFromRawdata
    \/ GetRawdataFromValue
    \/ GetHaUniqueId

RegisterSpec == Init /\ [][RegisterNext]_vars

\* ------------------------------------------------------------------
\* C11: receive_telegr cannot run on: while the call is in its loop a step is always
\* possible, every step either returns or starts one more poll, and no more than 600
\* polls are ever started, whatever the device sends or withholds.
\* ------------------------------------------------------------------
C11_Terminates ==
    /\ [](pc = "rx" => ENABLED <<Next>>_vars)
    /\ [][pc = "rx" => \/ pc' = "done" /\ polls' <= PollBudget
                       \/ pc' = "rx" /\ polls' = polls + 1 /\ polls' <= PollBudget]_vars

\* the device withheld every byte and the call returned with its 600th poll done
C11_Witness ==
    /\ Returned
    /\ polls = PollBudget
    /\ alldata = <<>>
    /\ ser_log = <<>>

\* ------------------------------------------------------------------
\* Vocabulary of the handshake properties
\* ------------------------------------------------------------------
IsIn(b, bytes) == \E i \in 1 .. Len(bytes) : bytes[i] = b

\* the bytes read between the write of w and the next reset or write (<<>> if w was not written)
ReadAfter(log, w) ==
    IF \E i \in 1 .. Len(log) - 1 : log[i] = <<"write", w>> /\ log[i + 1][1] = "read"
    THEN log[(CHOOSE i \in 1 .. Len(log) - 1 : log[i] = <<"write", w>> /\ log[i + 1][1] = "read") + 1][2]
    ELSE <<>>

InVs2 == pc \in {"enq", "ack", "done"}

\* ------------------------------------------------------------------
\* C12: init_vs2 returns true exactly when an ENQ was read in the (at most 30) polls
\* after the EOT and an ACK in the (at most 30) polls after START; otherwise it returns
\* false; the byte that ends a loop ends it in the poll that reads it, and no call
\* makes more than 60 polls.
\* ------------------------------------------------------------------
C12_HandshakeResult ==
    InVs2 =>
       /\ polls <= EnqPolls
       /\ ack_polls <= AckPolls
       /\ pc = "enq" => ~IsIn(ENQ, ReadAfter(ser_log, <<EOT>>))
       /\ pc = "ack" => ~IsIn(ACK, ReadAfter(ser_log, START_VS2))
       /\ Returned =>
            /\ result \in BOOLEAN
            /\ result <=> (/\ IsIn(ENQ, ReadAfter(ser_log, <<EOT>>))
                           /\ IsIn(ACK, ReadAfter(ser_log, START_VS2)))
            /\ polls + ack_polls <= 60
            /\ ~result => \/ polls = EnqPolls /\ ack_polls = 0
                          \/ ack_polls = AckPolls

\* the handshake succeeded although another byte was read ahead of the ENQ
C12_Witness ==
    /\ Returned
    /\ result = TRUE
    /\ Len(ReadAfter(ser_log, <<EOT>>)) = 2
    /\ polls > 2

\* ------------------------------------------------------------------
\* C13: the writes of one init_vs2 call are [EOT] alone as long as no ENQ was read and
\* [EOT], [0x16, 0, 0] from then on; START is written only behind a read that delivered
\* an ENQ, and every write directly follows a discard of the input buffer.
\* ------------------------------------------------------------------
C13_HandshakeWrites ==
    InVs2 =>
       /\ Writes(ser_log) = IF IsIn(ENQ, ReadAfter(ser_log, <<EOT>>))
                            THEN << <<EOT>>, START_VS2 >> ELSE << <<EOT>> >>
       /\ \A i \in 1 .. Len(ser_log) :
            ser_log[i][1] = "write" => (i > 1 /\ ser_log[i - 1] = <<"reset">>)
       /\ \A i \in 1 .. Len(ser_log) :
            ser_log[i] = <<"write", START_VS2>>
              => \E j \in 1 .. i - 1 : ser_log[j][1] = "read" /\ IsIn(ENQ, ser_log[j][2])

\* START was written and the handshake then failed for want of an ACK
C13_Witness ==
    /\ Returned
    /\ result = FALSE
    /\ Writes(ser_log) = << <<EOT>>, START_VS2 >>
    /\ ack_polls = AckPolls

\* ------------------------------------------------------------------
\* C14: with a secondary transport configured, the bytes written to it are all the
\* bytes read from the primary so far, in the order read.
\* ------------------------------------------------------------------
C14_MirrorComplete == ser2 => ser2_written = ReadBytes(ser_log)

\* ------------------------------------------------------------------
\* C15: a poll of receive_telegr that reads bytes from the primary leaves the call in
\* the state, or returns the (code, address, payload), that the state blocks compute
\* from the buffered bytes alone; the secondary transport has no part in it.
\* ------------------------------------------------------------------
C15_MirrorTransparent ==
    [][(pc = "rx" /\ alldata' # alldata) =>
         LET inbytes == SubSeq(alldata', Len(alldata) + 1, Len(alldata'))
             l == Iteration(resptelegr,
                            Locals(state, inbuff \o inbytes, alldata \o inbytes, retdata,
                                   addr, msgid, msqn, fctcd, dlen, NoReturn))
         IN  IF l.ret # NoReturn
             THEN /\ pc' = "done"
                  /\ \E raw \in BOOLEAN :
                       result' = <<l.ret[1], l.ret[2],
                                   IF ~raw THEN l.ret[3] ELSE bytearray(l.ret[3])>>
             ELSE /\ pc' = "rx"
                  /\ <<state', inbuff'>> = <<l.state, l.inbuff>>]_vars

\* ------------------------------------------------------------------
\* Vocabulary of the request properties
\* ------------------------------------------------------------------
Calling(name) == pc # "idle" /\ call # <<>> /\ call[1] = name

\* the frame the request in progress has written
Outbuff == Writes(ser_log)[1]

\* ------------------------------------------------------------------
\* C16: read_datapoint_ext(addr, rdlen) writes one frame and no more, and the frame is
\* the 8 bytes 0x41, 0x05, 0x00, 0x01, addr high byte, addr low byte, rdlen, checksum.
\* ------------------------------------------------------------------
C16_ReadFrame ==
    Calling("read_datapoint_ext") =>
       LET hi == (call[2] \div 256) % 256
           lo == call[2] % 256
       IN  /\ Len(Writes(ser_log)) = 1
           /\ Outbuff = <<65, 5, 0, 1, hi, lo, call[3], (5 + 0 + 1 + hi + lo + call[3]) % 256>>

\* a read of 255 bytes at 0xFFFF was answered with a frame carrying that address
C16_Witness ==
    /\ Calling("read_datapoint_ext")
    /\ call[2] = 65535
    /\ call[3] = 255
    /\ Returned
    /\ result[2] = 65535

\* ------------------------------------------------------------------
\* C17: write_datapoint_ext(addr, data) writes one frame and no more, of 8 + len(data)
\* bytes: 0x41, 5 + len(data), 0x00, 0x02, addr high byte, addr low byte, len(data),
\* the bytes of data in order, and the checksum as last byte.
\* ------------------------------------------------------------------
C17_WriteFrame ==
    Calling("write_datapoint_ext") =>
       LET data == call[3]
           head == <<65, 5 + Len(data), 0, 2, (call[2] \div 256) % 256, call[2] % 256, Len(data)>>
       IN  /\ Len(Writes(ser_log)) = 1
           /\ Len(Outbuff) = 8 + Len(data)
           /\ SubSeq(Outbuff, 1, 7) = head
           /\ SubSeq(Outbuff, 8, 7 + Len(data)) = data
           /\ Outbuff[8 + Len(data)] = SumSeq(Tail(head) \o data) % 256

\* two data bytes were written and the call has returned
C17_Witness ==
    /\ Calling("write_datapoint_ext")
    /\ call[3] = <<200, 100>>
    /\ Returned
    /\ Code = RC_Success

\* ------------------------------------------------------------------
\* C18: the last byte of every frame a request function writes is the sum, modulo 256,
\* of the length byte and the frame[1] bytes behind it, and calc_crc applied to the
\* finished frame gives that byte again.
\* ------------------------------------------------------------------
C18_ChecksumRoundTrip ==
    (pc # "idle" /\ call # <<>>) =>
       /\ Outbuff[Len(Outbuff)] = SumSeq(SubSeq(Outbuff, 2, Outbuff[2] + 2)) % 256
       /\ Outbuff[2] + 2 = Len(Outbuff) - 1
       /\ calc_crc(Outbuff) = Outbuff[Len(Outbuff)]

\* a do_request frame whose byte sum passes 255 and whose checksum byte is not zero
C18_Witness ==
    /\ Calling("do_request")
    /\ call[2] = 263
    /\ SumSeq(SubSeq(Outbuff, 2, Outbuff[2] + 2)) > 255
    /\ Outbuff[Len(Outbuff)] # 0

\* ------------------------------------------------------------------
\* C19: every frame written by a request function, and every frame receive_telegr has
\* classified as Success, ErrorMessage or ChecksumError, has a length byte of at least
\* 5 and is 3 bytes longer than its length byte says.
\* ------------------------------------------------------------------
C19_FrameLengths ==
    /\ \A i \in 1 .. Len(Writes(ser_log)) :
         LET f == Writes(ser_log)[i]
         IN  f[2] >= MinPayloadLen /\ Len(f) = 3 + f[2]
    /\ (Returned /\ Code \in {RC_Success, RC_ErrorMessage, RC_CrcError}) =>
         (inbuff[2] >= MinPayloadLen /\ Len(inbuff) = 3 + inbuff[2])

\* ------------------------------------------------------------------
\* Vocabulary of the raw receive properties
\* ------------------------------------------------------------------
RawReturned == Calling("receive_fullraw") /\ Returned

\* the result carries every byte read during the call, in the order read
RawData == result[2] = ReadBytes(ser_log) /\ result[2] = inbuff

\* ------------------------------------------------------------------
\* C20 as stated: success is returned only with a byte received and a quiet period of
\* more than eot_time that was over before the overall timeout, timeout is returned only
\* with more than timeout elapsed, and both return every byte read, in order.
\* ------------------------------------------------------------------
C20_QuietBeforeTimeout ==
    RawReturned =>
       /\ Code \in {RC_Success, RC_Timeout}
       /\ RawData
       /\ Code = RC_Success => /\ inbuff # <<>>
                               /\ now - last_rx > eot_time
                               /\ last_rx + eot_time < start + timeout
       /\ Code = RC_Timeout => now - start > timeout

\* ------------------------------------------------------------------
\* C20, amended: a poll that reads nothing while a byte is buffered and more than
\* eot_time has passed since the last arrival returns success, whatever time has
\* elapsed overall; any other poll that starts with more than timeout elapsed returns
\* timeout; success is returned only behind such a quiet period, timeout only with more
\* than timeout elapsed, and both return every byte read, in order.
\* ------------------------------------------------------------------
C20_RawResult ==
    /\ [](RawReturned =>
            /\ Code \in {RC_Success, RC_Timeout}
            /\ RawData
            /\ Code = RC_Success => (inbuff # <<>> /\ now - last_rx > eot_time)
            /\ Code = RC_Timeout => now - start > timeout)
    /\ [][pc = "raw" =>
            LET quiet == inbuff' = inbuff /\ inbuff # <<>> /\ now - last_rx > eot_time
            IN  /\ quiet => (pc' = "done" /\ result'[1] = RC_Success)
                /\ (~quiet /\ now - start > timeout) => (pc' = "done" /\ result'[1] = RC_Timeout)
                /\ pc' = "raw" => now - start <= timeout]_vars

\* success was returned for two or more bytes with more than timeout elapsed
C20_Witness ==
    /\ RawReturned
    /\ Code = RC_Success
    /\ Len(result[2]) >= 2
    /\ now - start > timeout

\* ------------------------------------------------------------------
\* Vocabulary of the register properties
\* ------------------------------------------------------------------
Called(method) == out # <<>> /\ out[1] = method

\* the register has no enum mapping and no byte filter
Plain == ext.enum = None /\ ext.byte_filter = None

\* ------------------------------------------------------------------
\* C21: the payload decoded from a register's raw bytes is the bytes read as a
\* little-endian integer, two's complement if the register is signed and unsigned
\* otherwise, whatever the register's length.
\* ------------------------------------------------------------------
C21_LittleEndian ==
    Called("get_mqtt_payload") =>
       out[3] = str(int_from_bytes(out[2], "little", reg.signed))

\* ------------------------------------------------------------------
\* C22: for a register of length 1, 2, 4 or 8 without enum mapping and byte filter,
\* encoding the payload that decoding returned for some bytes gives those bytes back.
\* ------------------------------------------------------------------
C22_RoundTrip ==
    [][(/\ Called("get_mqtt_payload")
        /\ Plain
        /\ reg.length \in {1, 2, 4, 8}
        /\ out'[1] = "get_rawdata_from_value"
        /\ out'[2] = out[3])
       => out'[3] = Returning(out[2])]_vars

\* ------------------------------------------------------------------
\* C23: encoding a number gives exactly length bytes that read back as that number,
\* and raises an error when the number does not fit the register's length and
\* signedness ("256" in one unsigned byte); it is never cut or wrapped into range.
\* ------------------------------------------------------------------
C23_EncodeFitsOrFails ==
    (Called("get_rawdata_from_value") /\ ext.enum = None /\ IsInt(int(out[2]))) =>
       /\ IF Fits(int(out[2]), reg.length, reg.signed)
          THEN /\ HasReturned(out[3])
               /\ Len(out[3].returns) = reg.length
               /\ int_from_bytes(out[3].returns, "little", reg.signed) = int(out[2])
          ELSE out[3] = OverflowError
       /\ (reg.length = 1 /\ ~reg.signed /\ out[2] = <<"2", "5", "6">>) => out[3] = OverflowError
       /\ (reg.length = 1 /\ reg.signed /\ out[2] = <<"-", "1", "2", "8">>) => out[3] = Returning(<<128>>)
       /\ (reg.length = 2 /\ reg.signed /\ out[2] = <<"-", "1">>) => out[3] = Returning(<<255, 255>>)
       /\ (reg.length = 2 /\ ~reg.signed /\ out[2] = <<"-", "1">>) => out[3] = OverflowError

\* "256" was refused by a register of one unsigned byte
C23_Witness ==
    /\ Called("get_rawdata_from_value")
    /\ ext.enum = None
    /\ reg.length = 1
    /\ ~reg.signed
    /\ out[2] = <<"2", "5", "6">>
    /\ out[3] = OverflowError

\* ------------------------------------------------------------------
\* C24: with an enum mapping, decoding the bytes of a mapped code returns its display
\* name and encoding a display name returns the bytes of its code; decoding an
\* unmapped code c returns "Unknown (c)", c in decimal; encoding a text that is no
\* display name raises an error that carries "Invalid value" and the text.
\* ------------------------------------------------------------------
C24_EnumMapping ==
    /\ (Called("get_value_from_rawdata") /\ ext.enum # None /\ ext.byte_filter = None) =>
          LET code == int_from_bytes(out[2], "little", reg.signed)
          IN  IF \E c \in DOMAIN ext.enum : code = MkInt(FALSE, <<c>>)
              THEN \E c \in DOMAIN ext.enum : code = MkInt(FALSE, <<c>>) /\ out[3] = ext.enum[c]
              ELSE out[3] = <<"U", "n", "k", "n", "o", "w", "n", " ", "(">> \o str(code) \o <<")">>
    /\ (Called("get_rawdata_from_value") /\ ext.enum # None) =>
          IF \E c \in DOMAIN ext.enum : ext.enum[c] = out[2]
          THEN /\ HasReturned(out[3])
               /\ Len(out[3].returns) = reg.length
               /\ \E c \in DOMAIN ext.enum :
                     /\ ext.enum[c] = out[2]
                     /\ int_from_bytes(out[3].returns, "little", reg.signed) = MkInt(FALSE, <<c>>)
          ELSE /\ ~HasReturned(out[3])
               /\ out[3].exception = "ValueError"
               /\ out[3].message = <<"Invalid value", out[2]>>

\* ------------------------------------------------------------------
\* C25: with a byte filter i..j, decoding reads only the bytes at offsets i..j of the
\* raw data (AA BB CC DD with offsets 1..2 is 0xCCBB = 52411), while encoding takes
\* no notice of the filter and gives all length bytes.
\* ------------------------------------------------------------------
C25_ByteFilterDecodesOnly ==
    /\ (/\ Called("get_value_from_rawdata")
        /\ ext.byte_filter # None
        /\ ext.enum = None
        /\ ext.byte_filter[2] < Len(out[2])) =>
          /\ out[3] = str(int_from_bytes(SubSeq(out[2], ext.byte_filter[1] + 1,
                                                ext.byte_filter[2] + 1),
                                         "little", reg.signed))
          /\ (out[2] = <<170, 187, 204, 221>> /\ ext.byte_filter = <<1, 2>> /\ ~reg.signed)
                => out[3] = <<"5", "2", "4", "1", "1">>
    /\ (/\ Called("get_rawdata_from_value")
        /\ ext.byte_filter # None
        /\ ext.enum = None
        /\ HasReturned(out[3])) =>
          /\ Len(out[3].returns) = reg.length
          /\ int_from_bytes(out[3].returns, "little", reg.signed) = int(out[2])

\* ------------------------------------------------------------------
\* C26: the sanitized name is the name without its leading and trailing whitespace,
\* each space replaced by one underscore and each letter lower-cased; every other
\* character stays what and where it was.
\* ------------------------------------------------------------------
\* the part of a topic behind the base topic and the slash
NamePart(topic) == SubSeq(topic, Len(reg.mqtt_base_topic) + 2, Len(topic))

C26_SanitizedName ==
    Called("get_mqtt_topic") =>
       LET name == reg.name
           san == NamePart(out[2])
           kept == {i \in 1 .. Len(name) : name[i] \notin Whitespace}
           first == CHOOSE i \in kept : \A j \in kept : i <= j
           last == CHOOSE i \in kept : \A j \in kept : j <= i
       IN  IF kept = {} THEN san = <<>>
           ELSE /\ Len(san) = last - first + 1
                /\ \A k \in 1 .. Len(san) :
                      LET ch == name[first + k - 1]
                      IN  san[k] = IF ch = " " THEN "_"
                                   ELSE IF \E u \in 1 .. 26 : UpperCase[u] = ch
                                   THEN LowerCase[CHOOSE u \in 1 .. 26 : UpperCase[u] = ch]
                                   ELSE ch

\* " A  b<tab>" was sanitized to "a__b"
C26_Witness ==
    /\ Called("get_mqtt_topic")
    /\ reg.name = <<" ", "A", " ", " ", "b", "\t">>
    /\ NamePart(out[2]) = <<"a", "_", "_", "b">>

\* ------------------------------------------------------------------
\* C27: the topic of a register is the configured base topic without its trailing
\* slash, a slash, and the sanitized name; a base topic given with and without the
\* trailing slash therefore gives one and the same topic.
\* ------------------------------------------------------------------
C27_StateTopic ==
    Called("get_mqtt_topic") =>
       LET base == ext.mqtt_base_topic
           bare == IF base # <<>> /\ base[Len(base)] = "/"
                   THEN SubSeq(base, 1, Len(base) - 1) ELSE base
       IN  /\ out[2] = bare \o <<"/">> \o sanitized_name(reg)
           /\ \A other \in BaseTopics :
                 other \in {bare, bare \o <<"/">>} =>
                    out[2] = get_mqtt_topic(OptolinkVS2Register(reg.name, reg.sampling_period_sec,
                                               reg.address, reg.length, reg.signed, other,
                                               reg.ha_discovery))

\* the topic of a register configured with the base topic "h/" is "h/temperature"
C27_Witness ==
    /\ Called("get_mqtt_topic")
    /\ ext.mqtt_base_topic = <<"h", "/">>
    /\ out[2] = <<"h", "/", "t", "e", "m", "p", "e", "r", "a", "t", "u", "r", "e">>

\* ------------------------------------------------------------------
\* C28: the unique id is the device id, "-", the sanitized name, "-" and four
\* lower-case hex digits that are the address as two bytes, low byte first:
\* address 0x00F8, name "Temperature", device "MyHeater" give
\* "MyHeater-temperature-f800".
\* ------------------------------------------------------------------
C28_UniqueId ==
    Called("get_ha_unique_id") =>
       LET id == out[3]
           n == Len(id)
           low == reg.address % 256
           high == (reg.address \div 256) % 256
       IN  /\ SubSeq(id, 1, n - 5) = out[2] \o <<"-">> \o sanitized_name(reg)
           /\ id[n - 4] = "-"
           /\ id[n - 3] = HexDigits[(low \div 16) + 1]
           /\ id[n - 2] = HexDigits[(low % 16) + 1]
           /\ id[n - 1] = HexDigits[(high \div 16) + 1]
           /\ id[n] = HexDigits[(high % 16) + 1]
           /\ (reg.address = 248 /\ reg.name = <<"T", "e", "m", "p", "e", "r", "a", "t", "u", "r", "e">>) =>
                 id = <<"M", "y", "H", "e", "a", "t", "e", "r", "-",
                        "t", "e", "m", "p", "e", "r", "a", "t", "u", "r", "e", "-",
                        "f", "8", "0", "0">>

\* the unique id of register "Temperature" at 0x00F8 of device "MyHeater" was asked for
C28_Witness ==
    /\ Called("get_ha_unique_id")
    /\ reg.address = 248
    /\ reg.name = <<"T", "e", "m", "p", "e", "r", "a", "t", "u", "r", "e">>
    /\ out[2] = <<"M", "y", "H", "e", "a", "t", "e", "r">>
    /\ out[3][Len(out[3]) - 3] = "f"

\* ------------------------------------------------------------------
\* C29: no register exists whose discovery platform is command-capable while the
\* register is not writable, or read-only while it is writable: such a definition
\* is refused when the register is constructed.
\* ------------------------------------------------------------------
\* the two capability classes of the discovery platforms
ReadOnlyPlatforms == {"sensor"}
CommandCapablePlatforms == {"switch"}

C29_NoPlatformMismatch ==
    (reg # None /\ reg.ha_discovery # None) =>
       /\ reg.ha_discovery.platform \in CommandCapablePlatforms => ext.writable
       /\ reg.ha_discovery.platform \in ReadOnlyPlatforms => ~ext.writable

\* ------------------------------------------------------------------
\* C30: a register is immutable after construction: no call of its operations, in
\* any number and order, changes its name, sampling period, address, length,
\* signedness, base topic or discovery metadata.
\* ------------------------------------------------------------------
C30_Immutable ==
    [][reg # None =>
         /\ reg'.name = reg.name
         /\ reg'.sampling_period_sec = reg.sampling_period_sec
         /\ reg'.address = reg.address
         /\ reg'.length = reg.length
         /\ reg'.signed = reg.signed
         /\ reg'.mqtt_base_topic = reg.mqtt_base_topic
         /\ reg'.ha_discovery = reg.ha_discovery]_vars

\* the topic was derived from a name that is not its own sanitized form, and the
\* register still has that name
C30_Witness ==
    /\ Called("get_mqtt_topic")
    /\ reg.name = <<" ", "A", " ", " ", "b", "\t">>
    /\ NamePart(out[2]) # reg.name

\* ------------------------------------------------------------------
\* C31: every return of receive_telegr carries one of the nine documented codes; a
\* poll in which the transport read (or the handling of the bytes just read) fails
\* ends the call in that poll with 0xAA, address 0 and empty data: the failure is
\* returned to the caller, the read is not tried again.
\* ------------------------------------------------------------------
C31_ClosedCodes ==
    /\ [](Returned =>
            Code \in {RC_Success, RC_ErrorMessage, RC_Nack, RC_Byte0Unknown, RC_StxError,
                      RC_HandleLost, RC_LengthError, RC_CrcError, RC_Timeout})
    /\ [](TransportFailed => result = <<RC_HandleLost, 0, <<>>>>)
    /\ [][(PollReadFails \/ PollMirrorFails) =>
             pc' = "done" /\ result'[1] = RC_HandleLost]_vars

\* the transport failed after bytes of a frame had been read in earlier polls
C31_Witness ==
    /\ TransportFailed
    /\ Len(alldata) > 2
    /\ polls > 1
    /\ result = <<RC_HandleLost, 0, <<>>>>

\* ------------------------------------------------------------------
\* C32: with one owner making its calls one after the other there is at most one
\* outstanding request: a request call discards the input buffer, then writes one
\* frame, then receives with the ACK gate on; the receive neither writes to nor
\* discards from the primary transport; a frame is written only when no call is in
\* progress, so never before the receive of the previous request has returned.
\* ------------------------------------------------------------------
\* the entries of the log other than reads
Commands(log) == SelectSeq(log, LAMBDA e : e[1] # "read")

C32_OneOutstanding ==
    /\ [][(pc = "idle" /\ pc' = "rx") =>
             /\ \E f \in {LastWrite(ser_log')} : ser_log' = ser_log \o <<<<"reset">>, <<"write", f>>>>
             /\ ser_in' = <<>>
             /\ resptelegr' /\ state' = 0]_vars
    /\ [][pc = "rx" => Commands(ser_log') = Commands(ser_log) /\ pc' \in {"rx", "done"}]_vars
    /\ [][Len(Writes(ser_log')) > Len(Writes(ser_log)) =>
             pc = "idle" /\ Len(Writes(ser_log')) = Len(Writes(ser_log)) + 1]_vars
    /\ [](pc = "rx" => Commands(ser_log) = <<<<"reset">>, <<"write", LastWrite(ser_log)>>>>)

\* a request of the session has returned Success while the device still owes the
\* answer to an earlier request, whose receive had returned before
C32_Witness ==
    /\ pc = "done"
    /\ owed # <<>>
    /\ Len(Writes(ser_log)) = 1
    /\ Code = RC_Success

\* ------------------------------------------------------------------
\* C33: over any sequence of requests of a session, one that timed out and whose
\* answer arrives late included, a read_datapoint_ext(addr, rdlen) that returns
\* Success returns the address addr and rdlen bytes of data: the telegram is the
\* device's answer to this request and not to an earlier one.
\* ------------------------------------------------------------------
C33_AnswerOfThisRequest ==
    (Returned /\ Calling("read_datapoint_ext") /\ Code = RC_Success) =>
        /\ result[2] = call[2]
        /\ Len(result[3]) = call[3]

\* ------------------------------------------------------------------
\* C34: a framing error decided before a frame is complete (NACK, unknown first
\* byte, wrong start byte, length below 5) returns address 0 and, as data, every
\* byte read so far in the call in the order of arrival, an ACK taken by the gate
\* included.
\* ------------------------------------------------------------------
EarlyFramingErrors == {RC_Nack, RC_Byte0Unknown, RC_StxError, RC_LengthError}

C34_EarlyErrorCarriesAllBytes ==
    (Returned /\ Code \in EarlyFramingErrors) =>
        /\ result[2] = 0
        /\ result[3] = ReadBytes(ser_log)

\* an ACK was taken by the gate, a later poll brought the rest, and the length is too short
C34_Witness ==
    /\ Returned
    /\ Code = RC_LengthError
    /\ resptelegr
    /\ polls > 1
    /\ result[3][1] = ACK
    /\ result[3] = ReadBytes(ser_log)

\* ------------------------------------------------------------------
\* C35: for a complete frame the publish hook is given protocolId = frame[2],
\* sequenceNumber = the top 3 bits of frame[3], functionCode = the low 5 bits of
\* frame[3], address = frame[4] * 256 + frame[5], declaredLength = frame[6] and
\* payload = frame[7 .. L+1], of L - 5 bytes (indices from 0, L = frame[1]); for an
\* outcome reached before a frame is complete it is given the initial values
\* 0x100, 0x100, 0x100, -1 and address 0.
\* ------------------------------------------------------------------
CompleteFrameCodes == {RC_Success, RC_ErrorMessage, RC_CrcError}

\* the bytes of the call from the start byte on: all that was read, less an ACK before it
FrameRead == IF ReadBytes(ser_log)[1] = STX THEN ReadBytes(ser_log) ELSE Tail(ReadBytes(ser_log))

\* what the hook was given at the return of the call
Reported == published[Len(published)]

C35_ReportedFields ==
    (Returned /\ mqtt_publ_callback /\ Code # RC_HandleLost) =>
        /\ published # <<>>
        /\ Reported[1] = Code
        /\ IF Code \in CompleteFrameCodes
           THEN LET frame == FrameRead
                    L == frame[2]
                IN  /\ Reported[4] = frame[3]
                    /\ Reported[5] = (frame[4] \div 32) % 8
                    /\ Reported[6] = frame[4] % 32
                    /\ Reported[2] = frame[5] * 256 + frame[6]
                    /\ Reported[7] = frame[7]
                    /\ Reported[3] = SubSeq(frame, 8, L + 2)
                    /\ Len(Reported[3]) = L - 5
           ELSE /\ Reported[2] = 0
                /\ <<Reported[4], Reported[5], Reported[6], Reported[7]>> = <<Unset, Unset, Unset, -1>>

\* a frame with one byte of data, after an ACK, was reported with sequence number 3
\* and function code 1
C35_Witness ==
    /\ Returned
    /\ mqtt_publ_callback
    /\ Code = RC_Success
    /\ published # <<>>
    /\ ReadBytes(ser_log)[1] = ACK
    /\ Reported[5] = 3
    /\ Reported[6] = 1
    /\ Len(Reported[3]) = 1

\* ------------------------------------------------------------------
\* C36: requests and responses share one frame structure: the frame built by
\* write_datapoint_ext(address, data), read by receive_telegr(resptelegr=False) in
\* one chunk or split across polls, gives Success with the same address and a
\* payload equal to data; the call returns nothing else unless its polls run
\* out before the whole frame has arrived, and then it returns Timeout.
\* ------------------------------------------------------------------
C36_RequestFrameIsReceivable ==
    (Returned /\ Calling("loopback")) =>
        IF ReadBytes(ser_log) = WriteOutbuff(call[2], call[3])
        THEN result = <<RC_Success, call[2], call[3]>>
        ELSE Code = RC_Timeout /\ polls = PollBudget

\* the frame of the longest write at address 0xFFFF arrived in more than three pieces
C36_Witness ==
    /\ Returned
    /\ Calling("loopback")
    /\ call[2] = 65535
    /\ call[3] = FullData
    /\ polls > 3
    /\ result = <<RC_Success, 65535, FullData>>

\* ------------------------------------------------------------------
\* C37: a request frame (read, write or generic) is written to the primary
\* transport only on a session whose most recent init_vs2 returned True: none is
\* written after a failed handshake or without one.
\* ------------------------------------------------------------------
\* this step writes a frame, which starts with STX, to the primary transport
WritesFrame ==
    /\ Len(Writes(ser_log')) > Len(Writes(ser_log))
    /\ LastWrite(ser_log')[1] = STX

C37_RequestOnlyAfterHandshake == [][WritesFrame => handshake = "ok"]_vars

\* ------------------------------------------------------------------
\* C38: a request that cannot be framed because a length does not fit one byte (a
\* read length outside 0..255, or data of a write or generic request longer than
\* 250 bytes) fails before the input buffer is discarded, before a byte is
\* written and before the publish hook is invoked: the transport and the session
\* are as they were; and no such request gets as far as the transport.
\* ------------------------------------------------------------------
\* the request c, as recorded in call, cannot be framed
Unframeable(c) ==
    CASE c[1] = "read_datapoint_ext" -> c[3] \notin 0 .. 255
      [] c[1] = "write_datapoint_ext" -> Len(c[3]) > 250
      [] c[1] = "do_request" -> Len(c[5]) > 250 \/ c[4] \notin 0 .. 255
      [] OTHER -> FALSE

C38_UnframeableFailsFirst ==
    /\ [][pc' = "raised" /\ pc # "raised" =>
             /\ pc = "idle"
             /\ UNCHANGED <<ser_log, ser_in, owed, handshake, published, ser2_written,
                            ser2, mqtt_publ_callback, locals, polls>>]_vars
    /\ [](pc = "raised" => result.exception = "ValueError" /\ Unframeable(result.call))
    /\ [](pc \in {"rx", "done"} /\ call # <<>> => ~Unframeable(call))

\* a write of 251 bytes has failed while an answer that arrived late was in the
\* input buffer, and the answer is still there
C38_Witness ==
    /\ pc = "raised"
    /\ result.call[1] = "write_datapoint_ext"
    /\ Len(result.call[3]) = 251
    /\ ser_in # <<>>
    /\ ser_log = <<>>

====
